---- MODULE Spec2Model ----
(***************************************************************************)
(* A model of the faser/norn single-threaded runtime:                      *)
(*   - the task engine (task cell, TaskSet, TaskQueue),                    *)
(*   - the executor loop (LocalExecutor::block_on),                        *)
(*   - the notifier (util::notify::Notify),                                *)
(*   - the ring driver (driver::Driver / Shared, PushFuture, operation     *)
(*     records).                                                           *)
(* Each subsystem has its own specification over the shared variables.     *)
(***************************************************************************)
EXTENDS Integers, Sequences, FiniteSets, TLC

\* ------------------------------------------------------------------ bounds

\* The number of times one task's future may be polled.
MaxPolls == 2

\* The task cells a run may allocate (spawned in this order).
Tasks == {1, 2}

\* The number of Notified observers a run may create on one Notify.
NumObs == 3

Obs == 1..NumObs

\* The size of the submission queue (io_uring::Builder::build(size)).
SQCap == 1

\* The number of requests for which the kernel posts a completion with the
\* "more" flag before the final one.
MaxMore == 1

\* The size of the submission queue of the driver whose descriptors are closed.
FdSQCap == 2

\* The number of times one FaserFd is cloned.
MaxFdRefs == 2

\* The largest capacity, in bytes, of a buffer handed to an I/O operation.
MaxBuf == 2

\* --------------------------------------------------------------- variables

VARIABLES
    closed,      \* TaskSet: Inner.closed
    list,        \* TaskSet: Inner.list, the registered tasks in FIFO order
    runqueue,    \* TaskQueue: Shared.runqueue, a FIFO of runnables
    cell,        \* the task cells: header state bits, body, output slot
    handle,      \* the join handle of each task: none / live / joined / dropped
    outcomes,    \* history: what each join handle has yielded so far
    hist,        \* history: what was done to each task
    rootNotified, \* FutureHarness.poll_root: the flag the join waker sets
    epc,         \* LocalExecutor::block_on: where the loop stands
    parkMode,    \* LocalExecutor::block_on: the ParkMode of the last park
    blockResult, \* LocalExecutor::block_on: the value it returned
    waiters,     \* Notify.waiters: the intrusive list of Linked entries
    count,       \* Notify.count
    entry,       \* each Notified's Entry: state, waker, and whether it was dropped
    extFired,    \* history: observers fired by calls of notify(n) from outside
    lost,        \* history: notifications a dropped Fired observer could not pass on
    status,      \* driver::Shared.status: Running / Draining / Shutdown
    sq,          \* the ring's submission queue: user-data tags pushed, not yet submitted
    inflight,    \* kernel: the tags submitted whose final completion is not posted
    cq,          \* the ring's completion queue: posted completions, not yet drained
    rec,         \* the operation records: Header.refcount, Header.complete, history
    opf,         \* each operation's future: new / waiting / inflight / done / dropped / err
    owner,       \* which future (the root or a task) holds each operation's future
    scenario,    \* "join": the root joins everything; "race": futures may be dropped
    unparker,    \* driver::Driver.unparker: read armed, wake written
    rpc,         \* where the executor thread stands in block_on / park / shutdown
    pst,         \* each task: idle / queued / running / woken / done
    submitted,   \* Shared::submit: entries handed over by a submit that still waits
    fdst,        \* a FaserFd: the Rc's strong count; history: clones made, Closes pushed
    io           \* one buffer-taking operation: the buffer handed in, the CQE, the output

taskVars == <<closed, list, runqueue, cell, handle, outcomes, hist, rootNotified>>

execVars == <<epc, parkMode, blockResult>>

notifyVars == <<waiters, count, entry, extFired, lost>>

ringVars ==
    <<status, sq, inflight, cq, rec, opf, owner, scenario, unparker, rpc, pst,
      submitted, fdst, io>>

vars == <<taskVars, execVars, notifyVars, ringVars>>

\* ----------------------------------------------------------------- helpers

Remove(s, x) == SelectSeq(s, LAMBDA y : y # x)

InSeq(s, x) == \E i \in 1..Len(s) : s[i] = x

Count(s, x) == Cardinality({i \in 1..Len(s) : s[i] = x})

\* ------------------------------------------------------------- task cell

\* A cell that has not been allocated yet.
NoCell ==
    [alloc |-> FALSE, scheduled |-> FALSE, running |-> FALSE, complete |-> FALSE,
     cancelled |-> FALSE, joinInterest |-> FALSE, joinWaker |-> FALSE,
     body |-> "None", result |-> "None", polls |-> 0]

\* TaskCell::allocate: a fresh cell holding the future; a runnable and a join
\* handle reference it.
TaskAllocate ==
    [alloc |-> TRUE, scheduled |-> TRUE, running |-> FALSE, complete |-> FALSE,
     cancelled |-> FALSE, joinInterest |-> TRUE, joinWaker |-> FALSE,
     body |-> "Future", result |-> "None", polls |-> 0]

\* Mutant of CompleteWith: the output is stored although no join handle is left
\* to take it.
CompleteWithKeepsOutput(c, res) ==
    [c EXCEPT !.complete = TRUE, !.running = FALSE, !.scheduled = FALSE,
              !.body = IF res = "Ok" THEN "Output" ELSE "Empty",
              !.result = IF c.joinInterest THEN res ELSE "None",
              !.joinWaker = FALSE]

\* The completion transition: the future is dropped, the result is stored while
\* a join handle is interested in it (an Ok output with no observer is dropped on
\* the transition), and the join waker is taken to be fired.
CompleteWith(c, res) ==
    [c EXCEPT !.complete = TRUE, !.running = FALSE, !.scheduled = FALSE,
              !.body = IF res = "Ok" /\ c.joinInterest THEN "Output" ELSE "Empty",
              !.result = IF c.joinInterest THEN res ELSE "None",
              !.joinWaker = FALSE]

\* Whether completing the cell fires a registered join waker.
FiresJoinWaker(c) == c.joinWaker

\* Mutant of PollPanicked: the panic is not caught, the cell is left as it was.
PollPanickedUncaught(c) == c

\* Runnable::run, a panic during the poll: caught, the cell completes with the
\* Panicked marker and the future is dropped.
PollPanicked(c) == CompleteWith(c, "Panicked")

\* RegisteredTask::shutdown / task.shutdown(): drop the future and complete the
\* cell with Cancelled; a cell that is already complete is left alone.
TaskShutdown(c) == IF c.complete THEN c ELSE CompleteWith(c, "Cancelled")

\* ---------------------------------------------------------------- TaskSet

\* Mutant of BindCell: bind forgets to shut the task down on a closed set.
BindCellNoShutdown(isClosed) == TaskAllocate

\* TaskSet::bind, the cell it leaves behind: on a closed set the freshly
\* allocated task is shut down at once.
BindCell(isClosed) == IF isClosed THEN TaskShutdown(TaskAllocate) ELSE TaskAllocate

\* TaskSet::bind, the list: a closed set registers nothing.
BindList(isClosed, l, t) == IF isClosed THEN l ELSE Append(l, t)

\* Mutant of BindRunnable: bind returns a runnable on a closed set too.
BindRunnableAlways(isClosed, t) == <<t>>

\* TaskSet::bind, the runnable it returns (<<>> for None).
BindRunnable(isClosed, t) == IF isClosed THEN <<>> ELSE <<t>>

\* Mutant of Schedule: the runnable is dropped instead of queued.
ScheduleDrop(q, t) == q

\* Mutant of Schedule: the runnable is queued twice.
ScheduleTwice(q, t) == Append(Append(q, t), t)

\* Mutant of Schedule: the runnable is pushed to the front of the queue.
SchedulePushFront(q, t) == <<t>> \o q

\* Schedule::schedule for Rc<Shared>: push the runnable to the back of the queue.
Schedule(q, t) == Append(q, t)

\* TaskSet::remove, as called through Schedule::unbind.
TaskSetRemove(l, t) == Remove(l, t)

\* Mutant of ShutdownCells: a task that was aborted before is skipped.
ShutdownCellsSkipsAborted(cs, l) ==
    [t \in Tasks |-> IF InSeq(l, t) /\ ~cs[t].cancelled THEN TaskShutdown(cs[t])
                     ELSE cs[t]]

\* TaskSet::shutdown, the cells: every registered task is shut down.
ShutdownCells(cs, l) ==
    [t \in Tasks |-> IF InSeq(l, t) THEN TaskShutdown(cs[t]) ELSE cs[t]]

\* ---------------------------------------------------------------- history

\* abort: abort() was called before the task completed; abortIdle: ... while it
\* was not Running either; shutdown: the task set was shut down over the task;
\* bornClosed: the task was spawned on a closed set; panicked: a poll panicked;
\* abortTwice: abort() was called twice in a row; ready: a poll returned Ready;
\* outDrops, dropAt: how often and where the output of the task was dropped;
\* ahead: the tasks whose runnable was published before this task's and has not
\* been returned by TaskQueue::next yet; republished: the queued runnable was
\* published by a run that ended Pending after a wake during the poll.
NoHist ==
    [abortIdle |-> FALSE, abort |-> FALSE, shutdown |-> FALSE, bornClosed |-> FALSE,
     panicked |-> FALSE, abortTwice |-> FALSE, ready |-> FALSE, outDrops |-> 0,
     dropAt |-> "none", ahead |-> {}, republished |-> FALSE]

\* A runnable of t is published on queue q: everything queued was published
\* before it.
HistPublish(H, q, t) == [H EXCEPT ![t].ahead = {q[i] : i \in 1..Len(q)}]

\* TaskQueue::next returned the runnable of t: it is ahead of nothing any more.
HistDispatch(H, t) ==
    [u \in Tasks |-> [H[u] EXCEPT !.ahead = H[u].ahead \ {t},
                                  !.republished = H[u].republished /\ u # t]]

\* TestFutureOutput's Drop: the output was dropped once more, at the given place.
OutputDrop(h, dropped, place) ==
    IF dropped THEN [h EXCEPT !.outDrops = h.outDrops + 1, !.dropAt = place] ELSE h

\* ------------------------------------------------------------------- Init

TaskInit ==
    /\ closed = FALSE
    /\ list = <<>>
    /\ runqueue = <<>>
    /\ cell = [t \in Tasks |-> NoCell]
    /\ handle = [t \in Tasks |-> "none"]
    /\ outcomes = [t \in Tasks |-> <<>>]
    /\ hist = [t \in Tasks |-> NoHist]
    /\ rootNotified = FALSE

\* LocalExecutor::new: block_on has not been called yet.
ExecInit ==
    /\ epc = "idle"
    /\ parkMode = "None"
    /\ blockResult = "None"

\* Notify::default: no waiters; no Notified has been created.
NotifyInit ==
    /\ waiters = <<>>
    /\ count = 0
    /\ entry = [e \in Obs |-> [state |-> "None", waker |-> FALSE, dropped |-> FALSE]]
    /\ extFired = 0
    /\ lost = 0

\* An operation record that has not been allocated yet. refcount and complete
\* are the Header's fields; the rest is history: how often the record was freed,
\* whether an assertion of the Header failed or a freed record was touched, how
\* many completions with "more" were delivered, whether its entry was pushed,
\* whether its future was dropped while the kernel held its reference, whether
\* its push waited on the backpressure notifier, and whether the kernel held
\* its reference when Driver::shutdown began.
NoRecord ==
    [refcount |-> 0, complete |-> FALSE, freed |-> 0, fault |-> FALSE, mores |-> 0,
     pushed |-> FALSE, dropInFlight |-> FALSE, waited |-> FALSE, atShutdown |-> FALSE]

\* Before Driver::new: no ring, no operation, no executor loop.
RingInit ==
    /\ status = "Running"
    /\ sq = <<>>
    /\ inflight = {}
    /\ cq = <<>>
    /\ rec = [o \in Obs |-> NoRecord]
    /\ opf = [o \in Obs |-> "none"]
    /\ owner = [o \in Obs |-> 0]
    /\ scenario = "none"
    /\ unparker = [parked |-> FALSE, woken |-> FALSE]
    /\ rpc = "setup"
    /\ pst = [t \in Tasks |-> "idle"]
    /\ submitted = 0
    /\ fdst = [state |-> "none", refs |-> 0, clones |-> 0, closes |-> 0, failed |-> FALSE]
    /\ io = [stage |-> "none"]

Init == TaskInit /\ ExecInit /\ NotifyInit /\ RingInit

\* ---------------------------------------------------------------- actions

NoneRunning == \A t \in Tasks : ~cell[t].running

\* TaskQueue::spawn: bind the future to the task set and schedule the runnable,
\* if one was returned.
Spawn(t) ==
    /\ ~cell[t].alloc
    /\ \A u \in Tasks : u < t => cell[u].alloc
    /\ cell' = [cell EXCEPT ![t] = BindCell(closed)]
    /\ list' = BindList(closed, list, t)
    /\ runqueue' = IF BindRunnable(closed, t) = <<>> THEN runqueue
                   ELSE Schedule(runqueue, t)
    /\ handle' = [handle EXCEPT ![t] = "live"]
    /\ LET H == [hist EXCEPT ![t].shutdown = closed, ![t].bornClosed = closed]
       IN hist' = IF BindRunnable(closed, t) = <<>> THEN H
                  ELSE HistPublish(H, runqueue, t)
    /\ UNCHANGED <<closed, outcomes, rootNotified>>

\* Runnable::run, entry: a cancelled task is completed with Cancelled without
\* being polled; otherwise the task becomes Running, Scheduled is cleared and the
\* future is polled (the poll ends in RunEnd).
RunEnter(c) ==
    IF c.complete THEN c
    ELSE IF c.cancelled THEN CompleteWith(c, "Cancelled")
    ELSE [c EXCEPT !.running = TRUE, !.scheduled = FALSE, !.polls = c.polls + 1]

\* TaskQueue::next followed by Runnable::run, up to the poll of the future.
RunBegin ==
    /\ runqueue # <<>>
    /\ NoneRunning
    /\ LET t == Head(runqueue)
           c == cell[t]
           n == RunEnter(c)
       IN /\ runqueue' = Tail(runqueue)
          /\ cell' = [cell EXCEPT ![t] = n]
          /\ list' = IF n.complete /\ ~c.complete THEN TaskSetRemove(list, t) ELSE list
          /\ rootNotified' = (rootNotified \/ (n.complete /\ ~c.complete /\ FiresJoinWaker(c)))
          /\ hist' = HistDispatch(hist, t)
    /\ UNCHANGED <<closed, handle, outcomes>>

\* Runnable::run, the poll returned Pending: Running is cleared and a wake that
\* arrived during the poll re-publishes the runnable.
RunPending(t) ==
    /\ cell[t].running
    /\ cell[t].polls < MaxPolls
    /\ cell' = [cell EXCEPT ![t].running = FALSE]
    /\ runqueue' = IF cell[t].scheduled THEN Schedule(runqueue, t) ELSE runqueue
    /\ hist' = IF cell[t].scheduled
               THEN HistPublish([hist EXCEPT ![t].republished = TRUE], runqueue, t)
               ELSE hist
    /\ UNCHANGED <<closed, list, handle, outcomes, rootNotified>>

\* Runnable::run, the poll returned Ready(v): the output is stored, the cell is
\* Complete, the future is dropped and the join waker is fired.
RunReady(t) ==
    /\ cell[t].running
    /\ cell' = [cell EXCEPT ![t] = CompleteWith(cell[t], "Ok")]
    /\ list' = TaskSetRemove(list, t)
    /\ rootNotified' = (rootNotified \/ FiresJoinWaker(cell[t]))
    /\ hist' = [hist EXCEPT ![t] = OutputDrop([hist[t] EXCEPT !.ready = TRUE],
                                              cell'[t].body # "Output", "completion")]
    /\ UNCHANGED <<closed, runqueue, handle, outcomes>>

\* Runnable::run, the poll panicked: the panic is caught, the cell is Complete
\* with the Panicked marker, the future is dropped and the join waker is fired.
RunPanic(t) ==
    /\ cell[t].running
    /\ cell' = [cell EXCEPT ![t] = PollPanicked(cell[t])]
    /\ list' = TaskSetRemove(list, t)
    /\ rootNotified' = (rootNotified \/ FiresJoinWaker(cell[t]))
    /\ hist' = [hist EXCEPT ![t].panicked = TRUE]
    /\ UNCHANGED <<closed, runqueue, handle, outcomes>>

\* Waker::wake / wake_by_ref on a waker the future cloned during a poll.
Wake(t) ==
    /\ cell[t].alloc
    /\ cell[t].polls >= 1
    /\ IF cell[t].complete \/ cell[t].scheduled
       THEN UNCHANGED <<cell, runqueue, hist>>
       ELSE /\ cell' = [cell EXCEPT ![t].scheduled = TRUE]
            /\ runqueue' = IF cell[t].running THEN runqueue ELSE Schedule(runqueue, t)
            /\ hist' = IF cell[t].running THEN hist ELSE HistPublish(hist, runqueue, t)
    /\ UNCHANGED <<closed, list, handle, outcomes, rootNotified>>

\* Mutant of AbortPublishes: abort publishes a runnable although one is already
\* scheduled.
AbortPublishesAgain(c) == ~c.complete /\ ~c.running

\* Mutant of AbortPublishes: abort publishes a runnable for a Complete task too.
AbortPublishesComplete(c) == ~c.running /\ ~c.scheduled

\* JoinHandle::abort, whether it publishes a runnable: only for a task that is
\* neither Complete nor Running nor already Scheduled.
AbortPublishes(c) == ~c.complete /\ ~c.running /\ ~c.scheduled

\* JoinHandle::abort, the cell: Cancelled is set, and Scheduled with a publication.
AbortCell(c) ==
    [c EXCEPT !.cancelled = TRUE, !.scheduled = c.scheduled \/ AbortPublishes(c)]

\* JoinHandle::abort, the ready queue.
AbortQueue(q, c, t) == IF AbortPublishes(c) THEN Schedule(q, t) ELSE q

\* JoinHandle::abort: set Cancelled; a task that is neither Running nor
\* Complete (nor already scheduled) is scheduled.
Abort(t) ==
    /\ handle[t] \in {"live", "joined"}
    /\ LET c == cell[t]
       IN /\ cell' = [cell EXCEPT ![t] = AbortCell(c)]
          /\ runqueue' = AbortQueue(runqueue, c, t)
          /\ LET H == [hist EXCEPT ![t].abort = hist[t].abort \/ ~c.complete,
                                   ![t].abortIdle = hist[t].abortIdle
                                                    \/ (~c.complete /\ ~c.running)]
             IN hist' = IF AbortPublishes(c) THEN HistPublish(H, runqueue, t) ELSE H
    /\ UNCHANGED <<closed, list, handle, outcomes, rootNotified>>

\* handle.abort(); handle.abort(): two calls in a row, nothing in between.
AbortTwice(t) ==
    /\ handle[t] \in {"live", "joined"}
    /\ LET c == cell[t]
           c1 == AbortCell(c)
           q1 == AbortQueue(runqueue, c, t)
       IN /\ cell' = [cell EXCEPT ![t] = AbortCell(c1)]
          /\ runqueue' = AbortQueue(q1, c1, t)
          /\ LET H == [hist EXCEPT ![t].abort = hist[t].abort \/ ~c.complete,
                                   ![t].abortIdle = hist[t].abortIdle
                                                    \/ (~c.complete /\ ~c.running),
                                   ![t].abortTwice = TRUE]
             IN hist' = IF AbortPublishes(c) THEN HistPublish(H, runqueue, t) ELSE H
    /\ UNCHANGED <<closed, list, handle, outcomes, rootNotified>>

\* What the next poll of a live join handle returns: "Pending" or the result.
JoinWouldYield(t) ==
    IF cell[t].complete /\ cell[t].result # "None" THEN cell[t].result ELSE "Pending"

\* JoinHandle::poll: a Complete cell hands over its result (Output -> Empty);
\* otherwise the join waker is registered and the poll is Pending.
JoinPollCell(t) ==
    /\ handle[t] = "live"
    /\ IF cell[t].complete /\ cell[t].result # "None"
       THEN /\ outcomes' = [outcomes EXCEPT ![t] = Append(outcomes[t], cell[t].result)]
            /\ cell' = [cell EXCEPT ![t].body = "Empty"]
            /\ handle' = [handle EXCEPT ![t] = "joined"]
            /\ hist' = [hist EXCEPT ![t] = OutputDrop(hist[t], cell[t].body = "Output",
                                                      "join")]
       ELSE /\ cell' = [cell EXCEPT ![t].joinWaker = TRUE]
            /\ UNCHANGED <<outcomes, handle, hist>>
    /\ UNCHANGED <<closed, list, runqueue>>

\* JoinHandle::poll from a test harness (the waker is not the root's).
JoinPoll(t) == JoinPollCell(t) /\ UNCHANGED rootNotified

\* Drop of the join handle (or detach): join interest is given up; an output
\* that was stored and never taken is dropped with the handle.
DropHandle(t) ==
    /\ handle[t] \in {"live", "joined"}
    /\ handle' = [handle EXCEPT ![t] = "dropped"]
    /\ cell' = [cell EXCEPT ![t].joinInterest = FALSE, ![t].joinWaker = FALSE,
                            ![t].body = IF cell[t].body = "Output" THEN "Empty"
                                        ELSE cell[t].body]
    /\ hist' = [hist EXCEPT ![t] = OutputDrop(hist[t], cell[t].body = "Output", "handle")]
    /\ UNCHANGED <<closed, list, runqueue, outcomes, rootNotified>>

\* TaskQueue::shutdown: TaskSet::shutdown (close, pop and shut down every
\* registered task), then drop the run queue.
Shutdown ==
    /\ NoneRunning
    /\ closed' = TRUE
    /\ cell' = ShutdownCells(cell, list)
    /\ list' = <<>>
    /\ runqueue' = <<>>
    /\ hist' = [t \in Tasks |->
                  [hist[t] EXCEPT !.shutdown = hist[t].shutdown
                                               \/ (InSeq(list, t) /\ ~cell[t].complete),
                                  !.ahead = {}, !.republished = FALSE]]
    /\ rootNotified' = (rootNotified
                        \/ \E t \in Tasks : InSeq(list, t) /\ ~cell[t].complete
                                            /\ FiresJoinWaker(cell[t]))
    /\ UNCHANGED <<handle, outcomes>>

TaskOthers == UNCHANGED <<execVars, notifyVars, ringVars>>

TaskNext ==
    \/ \E t \in Tasks : Spawn(t) /\ TaskOthers
    \/ RunBegin /\ TaskOthers
    \/ \E t \in Tasks : RunPending(t) /\ TaskOthers
    \/ \E t \in Tasks : RunReady(t) /\ TaskOthers
    \/ \E t \in Tasks : RunPanic(t) /\ TaskOthers
    \/ \E t \in Tasks : Wake(t) /\ TaskOthers
    \/ \E t \in Tasks : Abort(t) /\ TaskOthers
    \/ \E t \in Tasks : AbortTwice(t) /\ TaskOthers
    \/ \E t \in Tasks : JoinPoll(t) /\ TaskOthers
    \/ \E t \in Tasks : DropHandle(t) /\ TaskOthers
    \/ Shutdown /\ TaskOthers

SpecTask == Init /\ [][TaskNext]_vars

\* The task queue under an executor that keeps taking the next runnable and
\* whose polls return.
SpecTaskFair ==
    /\ SpecTask
    /\ WF_vars(RunBegin /\ TaskOthers)
    /\ WF_vars(\E t \in Tasks : (RunPending(t) \/ RunReady(t) \/ RunPanic(t)) /\ TaskOthers)

\* ---------------------------------------------------------- executor loop

\* The task whose join handle the root future awaits.
RootTask == 1

\* Mutant of IsNotified: the harness always reports the root as notified.
IsNotifiedAlways(flag) == TRUE

\* Mutant of IsNotified: the harness never reports the root as notified.
IsNotifiedNever(flag) == FALSE

\* FutureHarness::is_notified.
IsNotified(flag) == flag

\* Mutant of ChooseMode: the loop always parks until the next completion.
ChooseModeAlwaysBlocks(flag) == "NextCompletion"

\* LocalExecutor::block_on, the park mode: NoPark if the root is notified,
\* NextCompletion otherwise.
ChooseMode(flag) == IF IsNotified(flag) THEN "NoPark" ELSE "NextCompletion"

\* handle.spawn(..) before block_on is called (spawn_before_blockon), or a spawn
\* made by a running task.
ExecSpawn(t) ==
    /\ epc \in {"idle", "running"}
    /\ Spawn(t)
    /\ UNCHANGED execVars

\* LocalExecutor::block_on, entry: the context guards are entered and the root
\* is wrapped in a FutureHarness, whose poll_root flag starts set.
ExecBlockOn ==
    /\ epc = "idle"
    /\ epc' = "root"
    /\ rootNotified' = TRUE
    /\ UNCHANGED <<closed, list, runqueue, cell, handle, outcomes, hist, parkMode, blockResult>>

\* FutureHarness::try_poll when the root is not notified: None, no poll.
ExecSkipRoot ==
    /\ epc = "root"
    /\ ~IsNotified(rootNotified)
    /\ epc' = "drain"
    /\ UNCHANGED <<taskVars, parkMode, blockResult>>

\* The root future's poll, first part (spawn_in_blockon): it spawns the task it
\* is going to await.
ExecRootSpawn ==
    /\ epc = "root"
    /\ IsNotified(rootNotified)
    /\ ~cell[RootTask].alloc
    /\ Spawn(RootTask)
    /\ UNCHANGED execVars

\* FutureHarness::try_poll when the root is notified: the flag is cleared and
\* the root is polled; the root polls the join handle with the root waker and
\* returns what the join returns. Ready ends block_on with that value.
ExecPollRoot ==
    /\ epc = "root"
    /\ IsNotified(rootNotified)
    /\ cell[RootTask].alloc
    /\ JoinPollCell(RootTask)
    /\ rootNotified' = FALSE
    /\ IF JoinWouldYield(RootTask) # "Pending"
       THEN epc' = "done" /\ blockResult' = JoinWouldYield(RootTask)
       ELSE epc' = "drain" /\ UNCHANGED blockResult
    /\ UNCHANGED parkMode

\* The drain loop: taskqueue.next() returned a runnable, which is run.
ExecRun ==
    /\ epc = "drain"
    /\ RunBegin
    /\ epc' = IF cell'[Head(runqueue)].running THEN "running" ELSE "ran"
    /\ UNCHANGED <<parkMode, blockResult>>

\* The poll of the running task returns (Pending, Ready or a caught panic) and
\* with it Runnable::run.
ExecRunEnd(t) ==
    /\ epc = "running"
    /\ \/ RunPending(t)
       \/ RunReady(t)
       \/ (t # RootTask /\ RunPanic(t))
    /\ epc' = "ran"
    /\ UNCHANGED <<parkMode, blockResult>>

\* After each run the loop consults park.needs_park(): true leaves the drain
\* loop, false goes on draining.
ExecNeedsPark(np) ==
    /\ epc = "ran"
    /\ epc' = IF np THEN "mode" ELSE "drain"
    /\ UNCHANGED <<taskVars, parkMode, blockResult>>

\* taskqueue.next() returned None: the drain loop ends.
ExecDrained ==
    /\ epc = "drain"
    /\ runqueue = <<>>
    /\ epc' = "mode"
    /\ UNCHANGED <<taskVars, parkMode, blockResult>>

\* The park mode is chosen from the root's notified flag.
ExecChooseMode ==
    /\ epc = "mode"
    /\ parkMode' = ChooseMode(rootNotified)
    /\ epc' = "park"
    /\ UNCHANGED <<taskVars, blockResult>>

\* park.park(mode) returns Ok and the loop starts over.
ExecPark ==
    /\ epc = "park"
    /\ epc' = "root"
    /\ UNCHANGED <<taskVars, parkMode, blockResult>>

\* A waker of a suspended task fires: from the running task, or from the park
\* source while the executor is parked.
ExecWake(t) ==
    /\ epc \in {"running", "park"}
    /\ Wake(t)
    /\ UNCHANGED execVars

\* A join handle other than the one the root awaits is dropped (detach).
ExecDropHandle(t) ==
    /\ epc \in {"idle", "running"}
    /\ t # RootTask
    /\ DropHandle(t)
    /\ UNCHANGED execVars

ExecOthers == UNCHANGED <<notifyVars, ringVars>>

ExecStep ==
    \/ ExecBlockOn /\ ExecOthers
    \/ ExecSkipRoot /\ ExecOthers
    \/ ExecRootSpawn /\ ExecOthers
    \/ ExecPollRoot /\ ExecOthers
    \/ ExecRun /\ ExecOthers
    \/ \E np \in BOOLEAN : ExecNeedsPark(np) /\ ExecOthers
    \/ ExecDrained /\ ExecOthers
    \/ ExecChooseMode /\ ExecOthers
    \/ ExecPark /\ ExecOthers

ExecTaskRunEnd(t) == ExecRunEnd(t) /\ ExecOthers

ExecTaskWake(t) == ExecWake(t) /\ ExecOthers

ExecNext ==
    \/ ExecStep
    \/ \E t \in Tasks : ExecTaskRunEnd(t)
    \/ \E t \in Tasks : ExecSpawn(t) /\ ExecOthers
    \/ \E t \in Tasks : ExecTaskWake(t)
    \/ \E t \in Tasks : ExecDropHandle(t) /\ ExecOthers

SpecExec == Init /\ [][ExecNext]_vars

\* The executor thread keeps running, every poll returns, and the event a
\* suspended task waits for eventually fires its waker.
SpecExecFair ==
    /\ SpecExec
    /\ WF_vars(ExecStep)
    /\ \A t \in Tasks : WF_vars(ExecTaskRunEnd(t))
    /\ \A t \in Tasks : SF_vars(ExecTaskWake(t))

\* Result::unwrap on what park.park(mode) returned: Ok lets the loop start
\* over, Err panics inside block_on.
ParkUnwrap(res) == IF res = "Ok" THEN "root" ELSE "panicked"

\* park.park(mode) returns an error (a Park whose park can fail, as
\* Driver::park does on an error other than EBUSY and EINTR).
ExecParkErr ==
    /\ epc = "park"
    /\ epc' = ParkUnwrap("Err")
    /\ UNCHANGED <<taskVars, parkMode, blockResult>>

ExecParkFails == ExecParkErr /\ ExecOthers

ExecParkNext ==
    \/ ExecNext
    \/ ExecParkFails

\* block_on over a Park whose park may return an error.
SpecExecPark == Init /\ [][ExecParkNext]_vars

\* ----------------------------------------------------------------- Notify

\* Notify::notify, the loop: pop and fire front entries until `n` were removed
\* or the list is empty. Returns <<the remaining list, the number removed>>.
RECURSIVE NotifyLoop(_, _, _)
NotifyLoop(n, ws, removed) ==
    IF removed # n /\ ws # <<>>
    THEN NotifyLoop(n, Tail(ws), removed + 1)
    ELSE <<ws, removed>>

\* Notify::notify(n), the number of waiters notified.
NotifyRemoved(n, ws) == NotifyLoop(n, ws, 0)[2]

\* Mutant of NotifyRest: the fired entries are left in the list.
NotifyRestKeepsFired(n, ws) == ws

\* Notify::notify(n), the list it leaves.
NotifyRest(n, ws) == NotifyLoop(n, ws, 0)[1]

\* Mutant of NotifyFired: the entries fired are taken from the back of the list.
NotifyFiredFromBack(n, ws) == {ws[Len(ws) + 1 - i] : i \in 1..NotifyRemoved(n, ws)}

\* Notify::notify(n), the entries it fires: those popped from the front.
NotifyFired(n, ws) == {ws[i] : i \in 1..NotifyRemoved(n, ws)}

\* Entry::fire on every popped entry: the waker is taken and woken, the state
\* becomes Fired.
FireEntries(es, fired) ==
    [e \in Obs |-> IF e \in fired THEN [es[e] EXCEPT !.state = "Fired", !.waker = FALSE]
                   ELSE es[e]]

\* Mutant of DropForward: a dropped Fired observer passes nothing on.
DropForwardNever(st) == 0

\* Notified::drop, the number of notifications passed on to the next waiter:
\* one if the entry was Fired, none otherwise.
DropForward(st) == IF st = "Fired" THEN 1 ELSE 0

\* Notify::wait: a new Notified with an Unregistered entry.
NWait(e) ==
    /\ entry[e].state = "None"
    /\ \A f \in Obs : f < e => entry[f].state # "None"
    /\ entry' = [entry EXCEPT ![e].state = "Unregistered"]
    /\ UNCHANGED <<waiters, count, extFired, lost>>

\* Notified::poll: Unregistered links itself and stores the waker; Linked
\* refreshes the waker; Fired becomes Completed and the poll is Ready.
NPoll(e) ==
    /\ ~entry[e].dropped
    /\ \/ /\ entry[e].state = "Unregistered"
          /\ entry' = [entry EXCEPT ![e].state = "Linked", ![e].waker = TRUE]
          /\ waiters' = Append(waiters, e)
          /\ count' = count + 1
       \/ /\ entry[e].state = "Linked"
          /\ entry' = [entry EXCEPT ![e].waker = TRUE]
          /\ UNCHANGED <<waiters, count>>
       \/ /\ entry[e].state = "Fired"
          /\ entry' = [entry EXCEPT ![e].state = "Completed"]
          /\ UNCHANGED <<waiters, count>>
    /\ UNCHANGED <<extFired, lost>>

\* Notify::notify(n), called from outside.
NNotify(n) ==
    /\ entry' = FireEntries(entry, NotifyFired(n, waiters))
    /\ waiters' = NotifyRest(n, waiters)
    /\ count' = count - NotifyRemoved(n, waiters)
    /\ extFired' = extFired + NotifyRemoved(n, waiters)
    /\ UNCHANGED lost

\* Notified::drop: a Linked entry is unlinked (Notify::cancel); a Fired entry
\* passes its notification on with notify(1).
NDrop(e) ==
    /\ entry[e].state # "None"
    /\ ~entry[e].dropped
    /\ IF entry[e].state = "Linked"
       THEN /\ count' = count - 1
            /\ waiters' = Remove(waiters, e)
            /\ entry' = [entry EXCEPT ![e].dropped = TRUE]
       ELSE LET n == DropForward(entry[e].state)
            IN /\ entry' = [FireEntries(entry, NotifyFired(n, waiters))
                                EXCEPT ![e].dropped = TRUE]
               /\ waiters' = NotifyRest(n, waiters)
               /\ count' = count - NotifyRemoved(n, waiters)
    /\ lost' = IF entry[e].state = "Fired" /\ waiters = <<>> THEN lost + 1 ELSE lost
    /\ UNCHANGED extFired

NotifyOthers == UNCHANGED <<taskVars, execVars, ringVars>>

NotifyNext ==
    \/ \E e \in Obs : NWait(e) /\ NotifyOthers
    \/ \E e \in Obs : NPoll(e) /\ NotifyOthers
    \/ \E n \in 1..NumObs : NNotify(n) /\ NotifyOthers
    \/ \E e \in Obs : NDrop(e) /\ NotifyOthers

SpecNotify == Init /\ [][NotifyNext]_vars

\* ------------------------------------------------------------ ring driver

\* The root future's id among the futures that hold operations.
Root == 0

\* Driver::DRAIN_TOKEN
DRAIN_TOKEN == 1

\* Driver::UNPARKER_WAKE_TOKEN
UNPARKER_WAKE_TOKEN == 2

\* Driver::CANCELLATION_TOKEN
CANCELLATION_TOKEN == 3

\* Driver::CLOSE_FD_TOKEN
CLOSE_FD_TOKEN == 4

\* Driver::drain: user-data values up to this one are never record addresses.
ReservedTags == 1024

\* The user-data tag of operation o: the address of its record.
Addr(o) == ReservedTags + o

OpOf(ud) == ud - ReservedTags

Range(s) == {s[i] : i \in DOMAIN s}

\* notify(usize::MAX): more than any number of waiters.
NotifyAll == NumObs + 1

\* A Notified slot that holds no observer.
NoEntry == [state |-> "None", waker |-> FALSE, dropped |-> FALSE]

\* The operation futures that still exist.
Live(f) == f \in {"new", "waiting", "inflight"}

\* F(e), with e evaluated once.
Once(e, F(_)) == CHOOSE r \in {F(x) : x \in {e}} : TRUE

\* The state the executor thread's calls work on, as one value.
Cur ==
    [sq |-> sq, inflight |-> inflight, entry |-> entry, waiters |-> waiters,
     count |-> count, rec |-> rec, opf |-> opf, runqueue |-> runqueue,
     rootNotified |-> rootNotified, pst |-> pst, status |-> status,
     unparker |-> unparker]

Install(S) ==
    /\ sq' = S.sq
    /\ inflight' = S.inflight
    /\ entry' = S.entry
    /\ waiters' = S.waiters
    /\ count' = S.count
    /\ rec' = S.rec
    /\ opf' = S.opf
    /\ runqueue' = S.runqueue
    /\ rootNotified' = S.rootNotified
    /\ pst' = S.pst
    /\ status' = S.status
    /\ unparker' = S.unparker

\* Header::new: refcount 1, not complete.
HeaderNew == [NoRecord EXCEPT !.refcount = 1]

\* Mutant of IncRefcount: the kernel's reference is not counted.
IncRefcountNot(h) == h

\* Header::inc_refcount: asserts refcount > 0.
IncRefcount(h) ==
    IF h.refcount > 0 THEN [h EXCEPT !.refcount = @ + 1] ELSE [h EXCEPT !.fault = TRUE]

\* Header::dec_refcount: asserts refcount > 0.
DecRefcount(h) ==
    IF h.refcount > 0 THEN [h EXCEPT !.refcount = @ - 1] ELSE [h EXCEPT !.fault = TRUE]

\* Header::set_complete
SetComplete(h) == [h EXCEPT !.complete = TRUE]

\* The vtable's drop_ref: decrement, and free the record (running the payload's
\* destructors) when dec_refcount returned true.
DropRef(h) ==
    IF h.refcount > 0 /\ DecRefcount(h).refcount = 0
    THEN [DecRefcount(h) EXCEPT !.freed = @ + 1]
    ELSE DecRefcount(h)

\* A task's waker (the root's: FutureHarness sets poll_root): an idle task is
\* scheduled, a running one is marked to be rescheduled after its poll.
StWake(S0, p) ==
    Once(S0, LAMBDA S :
        IF p = Root THEN [S EXCEPT !.rootNotified = TRUE]
        ELSE IF S.pst[p] = "idle"
             THEN [S EXCEPT !.pst[p] = "queued", !.runqueue = Schedule(S.runqueue, p)]
        ELSE IF S.pst[p] = "running" THEN [S EXCEPT !.pst[p] = "woken"]
        ELSE S)

\* Entry::fire on the popped entries in order: each takes its waker and wakes it.
RECURSIVE StWakeSeq(_, _)
StWakeSeq(S0, es) ==
    Once(S0, LAMBDA S :
        IF es = <<>> THEN S
        ELSE StWakeSeq(IF S.entry[Head(es)].waker THEN StWake(S, owner[Head(es)]) ELSE S,
                       Tail(es)))

\* Notify::notify(n) on the backpressure notifier.
StNotify(S0, n) ==
    Once(S0, LAMBDA S :
        LET k == NotifyRemoved(n, S.waiters)
            W == StWakeSeq(S, SubSeq(S.waiters, 1, k))
        IN [W EXCEPT !.entry = FireEntries(S.entry, NotifyFired(n, S.waiters)),
                     !.waiters = NotifyRest(n, S.waiters),
                     !.count = S.count - k])

\* io_uring submit: every pushed entry is handed to the kernel. An AsyncCancel2
\* or Close entry is carried out at once and, flagged SKIP_SUCCESS, posts no
\* completion.
StEnter(S0) ==
    Once(S0, LAMBDA S :
        [S EXCEPT !.sq = <<>>,
                  !.inflight = S.inflight \cup (Range(S.sq)
                                    \ {CANCELLATION_TOKEN, CLOSE_FD_TOKEN})])

\* Mutant of StSubmit: every backpressure waiter is notified.
StSubmitNotifiesAll(S0) == StNotify(StEnter(S0), NotifyAll)

\* Shared::submit(NoPark): submit, then notify as many backpressure waiters as
\* entries were submitted.
StSubmit(S0) ==
    Once(S0, LAMBDA S :
        StNotify(StEnter(S), Len(S.sq)))

\* Mutant of StSetStatus: the status changes without notifying the waiters.
StSetStatusQuiet(S0, st) == [S0 EXCEPT !.status = st]

\* Shared::set_status: a change of status notifies every waiter.
StSetStatus(S0, st) ==
    Once(S0, LAMBDA S :
        [(IF st # S.status THEN StNotify(S, NotifyAll) ELSE S) EXCEPT !.status = st])

\* Mutant of TryPushFull: try_push never finds the queue full.
TryPushNeverFull(q) == FALSE

\* Shared::try_push: sq.is_full()
TryPushFull(q) == Len(q) >= SQCap

\* Shared::try_push_raw: sq.push(entry), which fails on a full queue.
TryPushRaw(q, ud) == IF Len(q) >= SQCap THEN q ELSE Append(q, ud)

\* Shared::try_push_raw on a ring of cap slots.
TryPushRawAt(cap, q, ud) == IF Len(q) >= cap THEN q ELSE Append(q, ud)

\* Shared::try_push_raw_submit on a ring of cap slots, its first statement:
\* push, and if that failed submit once to make space.
StTryPushRawFirst(S0, cap, ud) ==
    Once(S0, LAMBDA S :
        IF TryPushRawAt(cap, S.sq, ud) = S.sq
        THEN StSubmit(S)
        ELSE [S EXCEPT !.sq = TryPushRawAt(cap, @, ud)])

\* Shared::try_push_raw_submit, its second statement ("try again"): push.
StTryPushRawSubmit(S0, cap, ud) ==
    Once(StTryPushRawFirst(S0, cap, ud), LAMBDA A :
        [A EXCEPT !.sq = TryPushRawAt(cap, @, ud)])

\* Shared::try_push_raw_submit returns Ok when the second push succeeded.
TryPushRawSubmitOk(S0, cap, ud) ==
    \E A \in {StTryPushRawFirst(S0, cap, ud)} : TryPushRawAt(cap, A.sq, ud) # A.sq

\* Notified::drop of operation o's backpressure observer: a Linked one is
\* unlinked, a Fired one passes its notification on.
StDropNotified(S0, o) ==
    Once(S0, LAMBDA S :
        IF S.entry[o].state = "Linked"
        THEN [S EXCEPT !.count = @ - 1, !.waiters = Remove(@, o), !.entry[o] = NoEntry]
        ELSE StNotify([S EXCEPT !.entry[o] = NoEntry], DropForward(S.entry[o].state)))

\* Shared::cancel: the cancel is pushed as an AsyncCancel2 entry if the caller
\* allows it and the queue has room; otherwise register_sync_cancel is called.
CancelIsAsync(sync, q) == ~sync /\ ~TryPushFull(q)

\* Shared::cancel(criteria, sync): submit what is pending, then cancel.
SharedCancel(S0, sync) ==
    Once(StSubmit(S0), LAMBDA T :
        IF CancelIsAsync(sync, T.sq)
        THEN [T EXCEPT !.sq = Append(@, CANCELLATION_TOKEN)]
        ELSE T)

\* Mutant of StCancel: the cancel is pushed without submitting what is pending.
StCancelNoSubmit(S0) ==
    IF TryPushFull(S0.sq) THEN S0 ELSE [S0 EXCEPT !.sq = Append(@, CANCELLATION_TOKEN)]

\* Shared::cancel(criteria, sync = false): submit what is pending, then push an
\* AsyncCancel2 entry if the queue has room (otherwise cancel synchronously).
StCancel(S0) ==
    Once(S0, LAMBDA S :
        LET T == StSubmit(S)
        IN IF TryPushFull(T.sq) THEN T
           ELSE [T EXCEPT !.sq = Append(@, CANCELLATION_TOKEN)])

\* PushFutureInner::poll for operation o.
StPollPush(S0, o) ==
    Once(S0, LAMBDA S :
        IF S.status # "Running"
        THEN LET D == StDropNotified(S, o)
             IN [D EXCEPT !.opf[o] = "err", !.rec[o] = DropRef(@)]
        ELSE IF S.entry[o].state = "Linked"
        THEN [S EXCEPT !.entry[o].waker = TRUE]
        ELSE IF TryPushFull(S.sq)
        THEN [S EXCEPT !.entry[o] = [state |-> "Linked", waker |-> TRUE, dropped |-> FALSE],
                       !.waiters = Append(@, o),
                       !.count = @ + 1,
                       !.opf[o] = "waiting",
                       !.rec[o].waited = TRUE]
        ELSE [S EXCEPT !.entry[o] = NoEntry,
                       !.sq = Append(@, Addr(o)),
                       !.opf[o] = "inflight",
                       !.rec[o] = [IncRefcount(@) EXCEPT !.pushed = TRUE]])

\* Op::poll for operation o: push its entry first; once pushed, wait for the
\* record to be complete, then release the future's reference.
StPollOp(S0, o) ==
    Once(S0, LAMBDA S :
        IF S.opf[o] \in {"new", "waiting"} THEN StPollPush(S, o)
        ELSE IF S.rec[o].complete
        THEN [S EXCEPT !.opf[o] = "done", !.rec[o] = DropRef(@)]
        ELSE S)

\* Op::drop for operation o: a future still pushing drops its observer; a
\* future in flight whose record is not complete issues a cancel; the future's
\* reference is released.
StDropOp(S0, o) ==
    Once(S0, LAMBDA S :
        IF S.opf[o] = "inflight" /\ ~S.rec[o].complete
        THEN [StCancel(S) EXCEPT !.opf[o] = "dropped",
                                 !.rec[o] = [DropRef(@) EXCEPT !.dropInFlight = TRUE]]
        ELSE [StDropNotified(S, o) EXCEPT !.opf[o] = "dropped", !.rec[o] = DropRef(@)])

RECURSIVE StDropAll(_, _)
StDropAll(S0, os) ==
    Once(S0, LAMBDA S :
        IF os = <<>> THEN S
        ELSE StDropAll(IF Live(S.opf[Head(os)]) THEN StDropOp(S, Head(os)) ELSE S, Tail(os)))

\* complete_operation: only a completion without "more" is the final one.
ReleasesKernelRef(more) == ~more

\* complete_operation(cqe): the completion is appended to the record; the final
\* one sets complete and drops the kernel's reference; the future is woken.
StComplete(S0, c) ==
    Once(S0, LAMBDA S :
        LET o == OpOf(c.ud)
            r == S.rec[o]
            r1 == IF r.freed > 0 \/ r.refcount = 0 THEN [r EXCEPT !.fault = TRUE]
                  ELSE IF ReleasesKernelRef(c.more) THEN DropRef(SetComplete(r))
                  ELSE [r EXCEPT !.mores = @ + 1]
            T == [S EXCEPT !.rec[o] = r1]
        IN IF S.opf[o] = "inflight" THEN StWake(T, owner[o]) ELSE T)

\* Mutant of DrainSetsShutdown: the cancellation token is taken for the drain
\* token.
DrainSetsShutdownOnCancel(ud) == ud \in {DRAIN_TOKEN, CANCELLATION_TOKEN}

\* Mutant of DrainSetsShutdown: the completion of a record ends the drain too.
DrainSetsShutdownOnRecord(ud) == ud = DRAIN_TOKEN \/ ud > ReservedTags

\* Mutant of DrainSetsShutdown: the unparker's completion ends the drain too.
DrainSetsShutdownEarly(ud) == ud \in {DRAIN_TOKEN, UNPARKER_WAKE_TOKEN}

\* Driver::drain: the completion that moves the driver to Shutdown.
DrainSetsShutdown(ud) == ud = DRAIN_TOKEN

\* Driver::drain, one completion: sentinel tags are handled inline, any other
\* tag above the reserved range is a record's address.
StDispatch(S0, c) ==
    Once(S0, LAMBDA S :
        IF DrainSetsShutdown(c.ud) THEN StSetStatus(S, "Shutdown")
        ELSE IF c.ud = UNPARKER_WAKE_TOKEN
        THEN [S EXCEPT !.unparker = [parked |-> FALSE, woken |-> FALSE]]
        ELSE IF c.ud = CANCELLATION_TOKEN THEN S
        ELSE IF c.ud = CLOSE_FD_TOKEN THEN S
        ELSE IF c.ud <= ReservedTags THEN S
        ELSE StComplete(S, c))

\* Driver::drain::<32>(usize::MAX): every posted completion, in order.
RECURSIVE StDrain(_, _)
StDrain(S0, q) ==
    Once(S0, LAMBDA S :
        IF q = <<>> THEN S ELSE StDrain(StDispatch(S, Head(q)), Tail(q)))

\* Mutant of PreparePark: the read is pushed whether or not the unparker was
\* already parked.
PrepareParkRearms(S0) ==
    Once(S0, LAMBDA S :
        IF S.status # "Running" THEN <<S, TRUE>>
        ELSE IF Len(S.sq) >= SQCap
        THEN <<[S EXCEPT !.unparker.parked = TRUE], FALSE>>
        ELSE <<[S EXCEPT !.sq = TryPushRaw(@, UNPARKER_WAKE_TOKEN),
                         !.unparker.parked = TRUE],
               ~S.unparker.woken>>)

\* Unparker::park: the unparker is marked parked; the caller gets the state it
\* had before (is_parked, woken).
UnparkerPark(u) == [u EXCEPT !.parked = TRUE]

\* Driver::prepare_park: <<state, whether the ring is ready for parking>>. The
\* unparker is marked before the read is pushed, and stays marked when the
\* push fails.
PreparePark(S0) ==
    Once(S0, LAMBDA S :
        IF S.status # "Running" THEN <<S, TRUE>>
        ELSE IF S.unparker.parked THEN <<S, ~S.unparker.woken>>
        ELSE IF Len(S.sq) >= SQCap
        THEN <<[S EXCEPT !.unparker = UnparkerPark(@)], FALSE>>
        ELSE <<[S EXCEPT !.sq = TryPushRaw(@, UNPARKER_WAKE_TOKEN),
                         !.unparker = UnparkerPark(@)],
               ~S.unparker.woken>>)

\* LocalExecutor::block_on / Driver::shutdown: where park returns to.
ParkReturnsTo(S) == IF S.status = "Running" THEN "root" ELSE "sd"

\* What no ring action touches.
RingOthers == UNCHANGED <<closed, list, cell, handle, outcomes, hist, epc, blockResult,
                          extFired, lost, fdst, io>>

\* What the executor thread's calls work on (see Cur).
curVars ==
    <<sq, inflight, entry, waiters, count, rec, opf, runqueue, rootNotified, pst,
      status, unparker>>

\* The operations whose futures poller p holds, in the order it polls them.
OpsOf(p) == SelectSeq([i \in 1..NumObs |-> i], LAMBDA o : owner[o] = p)

\* The operation futures of the tasks, in the order TaskSet::shutdown drops them.
RECURSIVE TaskOpsFrom(_)
TaskOpsFrom(t) == IF t \in Tasks THEN OpsOf(t) \o TaskOpsFrom(t + 1) ELSE <<>>

\* Every operation future is resolved and every task is done.
AllResolved(S) == (\A o \in Obs : ~Live(S.opf[o])) /\ (\A t \in Tasks : S.pst[t] = "done")

\* One poll of a future that holds the operation futures os: each live one is
\* polled in turn, or dropped if it is in D.
RECURSIVE StPollAll(_, _, _)
StPollAll(S0, os, D) ==
    Once(S0, LAMBDA S :
        IF os = <<>> THEN S
        ELSE LET o == Head(os)
                 T == IF ~Live(S.opf[o]) THEN S
                      ELSE IF o \in D THEN StDropOp(S, o)
                      ELSE StPollOp(S, o)
             IN StPollAll(T, Tail(os), D))

\* The owners of the operations, up to renaming the operations.
Owners ==
    {ow \in [Obs -> {Root} \cup Tasks] : \A a, b \in Obs : a <= b => ow[a] <= ow[b]}

\* The operation futures a poll may drop: none when the root joins everything.
Droppable(p) ==
    IF scenario = "join" THEN {{}}
    ELSE SUBSET {o \in Obs : owner[o] = p /\ Live(opf[o])}

\* Driver::new(builder, size), the operations' records allocated, the tasks
\* spawned and block_on entered: the harness starts notified.
RingSetup(sc) ==
    /\ rpc = "setup"
    /\ owner' \in Owners
    /\ scenario' = sc
    /\ rec' = [o \in Obs |-> HeaderNew]
    /\ opf' = [o \in Obs |-> "new"]
    /\ runqueue' = <<1, 2>>
    /\ pst' = [t \in Tasks |-> "queued"]
    /\ rootNotified' = TRUE
    /\ rpc' = "root"
    /\ UNCHANGED <<sq, inflight, entry, waiters, count, status, unparker, cq, submitted,
                   parkMode>>

\* block_on: root.try_poll() on a notified harness polls the root future, which
\* returns Pending.
RootPending(D) ==
    /\ rpc = "root"
    /\ IsNotified(rootNotified)
    /\ D \in Droppable(Root)
    /\ \E S \in {StPollAll([Cur EXCEPT !.rootNotified = FALSE], OpsOf(Root), D)} :
          /\ scenario = "join" => ~AllResolved(S)
          /\ Install(S)
    /\ rpc' = "run"
    /\ UNCHANGED <<cq, owner, scenario, submitted, parkMode>>

\* block_on: the root future returns Ready and block_on returns: the root
\* future, and the operation futures it still holds, are dropped.
RootReady(D) ==
    /\ rpc = "root"
    /\ IsNotified(rootNotified)
    /\ D \in Droppable(Root)
    /\ \E P \in {StPollAll([Cur EXCEPT !.rootNotified = FALSE], OpsOf(Root), D)} :
          /\ scenario = "join" => AllResolved(P)
          /\ \E S \in {StDropAll(P, OpsOf(Root))} : Install(S)
    /\ rpc' = "drop"
    /\ UNCHANGED <<cq, owner, scenario, submitted, parkMode>>

\* block_on: root.try_poll() returns None without polling.
LoopSkipRoot ==
    /\ rpc = "root"
    /\ ~IsNotified(rootNotified)
    /\ rpc' = "run"
    /\ UNCHANGED <<curVars, cq, owner, scenario, submitted, parkMode>>

\* taskqueue.next() and next.run() for task t: the task is polled; it is Ready
\* when all its operations are resolved (firing the join waker when the root
\* joins it), otherwise Pending, rescheduled if it was woken during the poll.
TaskRuns(S0, t, D) ==
    Once(StPollAll([S0 EXCEPT !.runqueue = Tail(@), !.pst[t] = "running"], OpsOf(t), D),
         LAMBDA P :
            IF \A o \in Obs : owner[o] = t => ~Live(P.opf[o])
            THEN (IF scenario = "join" THEN StWake([P EXCEPT !.pst[t] = "done"], Root)
                  ELSE [P EXCEPT !.pst[t] = "done"])
            ELSE IF P.pst[t] = "woken"
            THEN [P EXCEPT !.pst[t] = "queued", !.runqueue = Schedule(@, t)]
            ELSE [P EXCEPT !.pst[t] = "idle"])

\* block_on: while let Some(next) = taskqueue.next() { next.run(); if
\* park.needs_park() break }, one turn.
RunTask(D) ==
    /\ rpc = "run"
    /\ runqueue # <<>>
    /\ D \in Droppable(Head(runqueue))
    /\ \E S \in {TaskRuns(Cur, Head(runqueue), D)} :
          /\ Install(S)
          /\ rpc' = IF S.count > 0 THEN "park" ELSE "run"
          /\ parkMode' = IF S.count > 0 THEN ChooseMode(S.rootNotified) ELSE parkMode
    /\ UNCHANGED <<cq, owner, scenario, submitted>>

\* block_on: the run queue is empty; park with the mode chosen.
LoopPark ==
    /\ rpc = "run"
    /\ runqueue = <<>>
    /\ rpc' = "park"
    /\ parkMode' = ChooseMode(rootNotified)
    /\ UNCHANGED <<curVars, cq, owner, scenario, submitted>>

\* LocalExecutor::drop, first half: taskqueue.shutdown() drops every task's
\* future and the run queue.
ExecutorDrop ==
    /\ rpc = "drop"
    /\ \E S \in {StDropAll(Cur, TaskOpsFrom(1))} :
          Install([S EXCEPT !.pst = [t \in Tasks |-> "done"], !.runqueue = <<>>])
    /\ rpc' = "sd"
    /\ UNCHANGED <<cq, owner, scenario, submitted, parkMode>>

\* Driver::shutdown, the loop's exit: status is Shutdown.
ShutdownReturn ==
    /\ rpc = "sd"
    /\ status = "Shutdown"
    /\ rpc' = "closed"
    /\ UNCHANGED <<curVars, cq, owner, scenario, submitted, parkMode>>

\* Mutant of ShutdownReturnsAtOnce: the call enters the loop whatever the status.
ShutdownReturnsNever(st) == FALSE

\* Driver::shutdown, its first statement: a driver that is Shutdown returns.
ShutdownReturnsAtOnce(st) == st = "Shutdown"

\* Drop for Driver, after LocalExecutor::drop has called park.shutdown(): a
\* second call of Driver::shutdown, which returns at once or enters the loop.
DriverDrop ==
    /\ rpc = "closed"
    /\ rpc' = IF ShutdownReturnsAtOnce(status) THEN "dropped" ELSE "sd"
    /\ UNCHANGED <<curVars, cq, owner, scenario, submitted, parkMode>>

\* Mutant of ShutdownBegins: the pending entries are not submitted before the
\* IO_DRAIN Nop is pushed.
ShutdownBeginsNoSubmit(S0) ==
    Once([S0 EXCEPT !.unparker.woken = TRUE,
                    !.rec = [o \in Obs |->
                        [S0.rec[o] EXCEPT !.atShutdown =
                             S0.rec[o].pushed /\ ~S0.rec[o].complete]]],
         LAMBDA U :
            IF Len(U.sq) < SQCap
            THEN StSetStatus([U EXCEPT !.sq = TryPushRaw(@, DRAIN_TOKEN)], "Draining")
            ELSE U)

\* Driver::shutdown while Running: wake the unparker, submit what is pending,
\* cancel everything, push the IO_DRAIN Nop and become Draining if it was
\* pushed.
ShutdownBegins(S0) ==
    Once(StSubmit([S0 EXCEPT !.unparker.woken = TRUE,
                             !.rec = [o \in Obs |->
                                 [S0.rec[o] EXCEPT !.atShutdown =
                                      S0.rec[o].pushed /\ ~S0.rec[o].complete]]]),
         LAMBDA U :
            IF Len(U.sq) < SQCap
            THEN StSetStatus([U EXCEPT !.sq = TryPushRaw(@, DRAIN_TOKEN)], "Draining")
            ELSE U)

\* Driver::shutdown, one turn of the loop: the Running branch, then
\* park(NextCompletion) if Draining.
ShutdownIter ==
    /\ rpc = "sd"
    /\ status # "Shutdown"
    /\ \E S \in {IF status = "Running" THEN ShutdownBegins(Cur) ELSE Cur} :
          /\ Install(S)
          /\ rpc' = IF S.status = "Draining" THEN "park" ELSE "sd"
    /\ parkMode' = "NextCompletion"
    /\ UNCHANGED <<cq, owner, scenario, submitted>>

\* Mutant of ModeAfterDrain: the requested mode is kept whatever was drained.
ModeAfterDrainKept(drained, mode) == mode

\* Driver::park: if drained > 0 { mode = ParkMode::NoPark }
ModeAfterDrain(drained, mode) == IF drained > 0 THEN "NoPark" ELSE mode

\* Driver::park(mode): drain the completion queue (anything drained makes the
\* mode NoPark), then Driver::submit(mode): a parking mode arms the unparker
\* first and is demoted to NoPark if that fails; the pending entries are handed
\* to the kernel. With NoPark the call returns at once and the backpressure
\* waiters are notified; otherwise it waits for a completion.
Park ==
    /\ rpc = "park"
    /\ \E A \in {StDrain(Cur, cq)} :
       \E pp \in {IF ModeAfterDrain(Len(cq), parkMode) = "NextCompletion"
                   THEN PreparePark(A) ELSE <<A, FALSE>>} :
          IF pp[2]
          THEN /\ Install(StEnter(pp[1]))
               /\ submitted' = Len(pp[1].sq)
               /\ parkMode' = "NextCompletion"
               /\ rpc' = "park_wait"
          ELSE /\ \E S \in {StSubmit(pp[1])} : Install(S) /\ rpc' = ParkReturnsTo(S)
               /\ submitted' = 0
               /\ parkMode' = "NoPark"
    /\ cq' = <<>>
    /\ UNCHANGED <<owner, scenario>>

\* submit_with_args(1, ..) returns once a completion is posted; Shared::submit
\* then notifies as many backpressure waiters as entries were submitted.
ParkReturn ==
    /\ rpc = "park_wait"
    /\ cq # <<>>
    /\ \E S \in {StNotify(Cur, submitted)} : Install(S) /\ rpc' = ParkReturnsTo(S)
    /\ submitted' = 0
    /\ UNCHANGED <<cq, owner, scenario, parkMode>>

\* The completions with "more" the kernel has posted so far.
KMoreSent ==
    Cardinality({i \in DOMAIN cq : cq[i].more})
    + Cardinality({o \in Obs : rec[o].mores > 0})

\* The kernel posts a completion for a submitted request; the one without
\* "more" is its last.
KComplete(o, more) ==
    /\ Addr(o) \in inflight
    /\ more => KMoreSent < MaxMore
    /\ cq' = Append(cq, [ud |-> Addr(o), more |-> more])
    /\ inflight' = IF more THEN inflight ELSE inflight \ {Addr(o)}
    /\ UNCHANGED <<sq, entry, waiters, count, rec, opf, runqueue, rootNotified, pst,
                   status, unparker, owner, scenario, rpc, submitted,
                   parkMode>>

\* The kernel completes the armed read of the unparker once wake() has written.
KUnparker ==
    /\ UNPARKER_WAKE_TOKEN \in inflight
    /\ unparker.woken
    /\ cq' = Append(cq, [ud |-> UNPARKER_WAKE_TOKEN, more |-> FALSE])
    /\ inflight' = inflight \ {UNPARKER_WAKE_TOKEN}
    /\ UNCHANGED <<sq, entry, waiters, count, rec, opf, runqueue, rootNotified, pst,
                   status, unparker, owner, scenario, rpc, submitted,
                   parkMode>>

\* The kernel completes the IO_DRAIN Nop once every request submitted before it
\* has completed.
KDrain ==
    /\ inflight = {DRAIN_TOKEN}
    /\ cq' = Append(cq, [ud |-> DRAIN_TOKEN, more |-> FALSE])
    /\ inflight' = {}
    /\ UNCHANGED <<sq, entry, waiters, count, rec, opf, runqueue, rootNotified, pst,
                   status, unparker, owner, scenario, rpc, submitted,
                   parkMode>>

\* The steps of the executor thread once block_on was entered.
RingRun ==
    \/ \E D \in SUBSET Obs : RootPending(D) /\ RingOthers
    \/ \E D \in SUBSET Obs : RootReady(D) /\ RingOthers
    \/ LoopSkipRoot /\ RingOthers
    \/ \E D \in SUBSET Obs : RunTask(D) /\ RingOthers
    \/ LoopPark /\ RingOthers
    \/ ExecutorDrop /\ RingOthers
    \/ ShutdownReturn /\ RingOthers
    \/ ShutdownIter /\ RingOthers
    \/ DriverDrop /\ RingOthers
    \/ Park /\ RingOthers
    \/ ParkReturn /\ RingOthers

\* The program starts: a root that joins every operation and task, or futures
\* that may be dropped.
RingStart(sc) == RingSetup(sc) /\ RingOthers

\* The kernel's final completion of operation o.
KernelFinal(o) == KComplete(o, FALSE) /\ RingOthers

\* A completion with "more" for operation o.
KernelMore(o) == KComplete(o, TRUE) /\ RingOthers

\* The kernel's completions of the driver's own requests.
KernelOwn == (KUnparker \/ KDrain) /\ RingOthers

RingNext ==
    \/ \E sc \in {"join", "race"} : RingStart(sc)
    \/ RingRun
    \/ \E o \in Obs : KernelFinal(o)
    \/ \E o \in Obs : KernelMore(o)
    \/ KernelOwn

SpecRing == Init /\ [][RingNext]_vars

\* The executor thread keeps taking steps; the kernel is free never to complete
\* a request.
SpecRingFair ==
    /\ SpecRing
    /\ WF_vars(\E sc \in {"join", "race"} : RingStart(sc))
    /\ WF_vars(RingRun)

\* The program whose root joins every operation (concurrent_submit).
RingJoinNext ==
    \/ RingStart("join")
    \/ RingRun
    \/ \E o \in Obs : KernelFinal(o)
    \/ \E o \in Obs : KernelMore(o)
    \/ KernelOwn

\* Every request completes on its own (as a Nop does), and so do the driver's.
SpecRingJoin ==
    /\ Init /\ [][RingJoinNext]_vars
    /\ WF_vars(RingStart("join"))
    /\ WF_vars(RingRun)
    /\ \A o \in Obs : WF_vars(KernelFinal(o))
    /\ WF_vars(KernelOwn)

\* The kernel completes every request it was handed, cancelled ones included,
\* and the driver's own.
SpecRingKernel ==
    /\ SpecRing
    /\ WF_vars(\E sc \in {"join", "race"} : RingStart(sc))
    /\ WF_vars(RingRun)
    /\ \A o \in Obs : WF_vars(KernelFinal(o))
    /\ WF_vars(KernelOwn)

\* The completions carrying a reserved tag that are posted besides the driver's
\* DRAIN and UNPARKER: at most MaxStray wait in the completion queue.
MaxStray == 1

\* Their tags: an AsyncCancel2 or a Close that failed (SKIP_SUCCESS suppresses
\* only the completion of a success), and tags no request of the driver
\* carries, up to the last reserved one.
StrayTags == {CANCELLATION_TOKEN, CLOSE_FD_TOKEN, CLOSE_FD_TOKEN + 1, ReservedTags}

\* The kernel posts a completion with a reserved tag while the driver is not
\* shut down.
KReserved(ud) ==
    /\ rpc # "setup"
    /\ status # "Shutdown"
    /\ Cardinality({i \in DOMAIN cq : cq[i].ud \in StrayTags}) < MaxStray
    /\ cq' = Append(cq, [ud |-> ud, more |-> FALSE])
    /\ UNCHANGED <<sq, inflight, entry, waiters, count, rec, opf, runqueue, rootNotified,
                   pst, status, unparker, owner, scenario, rpc, submitted, parkMode>>

KernelReserved(ud) == KReserved(ud) /\ RingOthers

RingStrayNext ==
    \/ RingStart("race")
    \/ RingRun
    \/ \E o \in Obs : KernelFinal(o)
    \/ KernelOwn
    \/ \E ud \in StrayTags : KernelReserved(ud)

\* The program whose futures may be dropped, on a ring whose completion queue
\* also carries reserved tags.
SpecRingStray == Init /\ [][RingStrayNext]_vars

\* The errors io_uring_enter can fail with: the two Driver::park retries on, and
\* others.
SubmitErrors == {"EBUSY", "EINTR", "EIO", "ENOMEM"}

\* Mutant of ParkOnError: an interrupted submit is returned to the caller.
ParkOnErrorReturnsEintr(err, mode) ==
    IF err = "EBUSY" THEN [again |-> TRUE, drain |-> TRUE, mode |-> "NoPark"]
    ELSE [again |-> FALSE, drain |-> FALSE, mode |-> mode]

\* Driver::park, the match on the error of self.submit(mode): EBUSY drains and
\* retries with NoPark, EINTR retries, any other error is returned.
ParkOnError(err, mode) ==
    IF err = "EBUSY" THEN [again |-> TRUE, drain |-> TRUE, mode |-> "NoPark"]
    ELSE IF err = "EINTR" THEN [again |-> TRUE, drain |-> FALSE, mode |-> mode]
    ELSE [again |-> FALSE, drain |-> FALSE, mode |-> mode]

\* Driver::park, up to its loop: the initial drain and the choice of the mode.
ParkEnter ==
    /\ rpc = "park"
    /\ \E A \in {StDrain(Cur, cq)} : Install(A)
    /\ parkMode' = ModeAfterDrain(Len(cq), parkMode)
    /\ cq' = <<>>
    /\ rpc' = "submit"
    /\ UNCHANGED <<owner, scenario, submitted>>

\* Driver::park, one turn of its loop in which self.submit(mode) succeeds:
\* Driver::submit arms the unparker for a parking mode (demoting its own copy
\* of the mode if that fails) and Shared::submit hands the entries over.
ParkSubmitOk ==
    /\ rpc = "submit"
    /\ \E pp \in {IF parkMode = "NextCompletion" THEN PreparePark(Cur) ELSE <<Cur, FALSE>>} :
          IF pp[2]
          THEN /\ Install(StEnter(pp[1]))
               /\ submitted' = Len(pp[1].sq)
               /\ rpc' = "park_wait"
          ELSE /\ \E S \in {StSubmit(pp[1])} : Install(S) /\ rpc' = ParkReturnsTo(S)
               /\ submitted' = 0
    /\ UNCHANGED <<cq, owner, scenario, parkMode>>

\* Driver::park, one turn of its loop in which self.submit(mode) fails with
\* err after Driver::submit has prepared the park: nothing was submitted and
\* nobody is notified. A returned error ends the caller (rpc is the error).
ParkSubmitErr(err) ==
    /\ rpc = "submit"
    /\ \E pp \in {IF parkMode = "NextCompletion" THEN PreparePark(Cur) ELSE <<Cur, FALSE>>} :
       \E on \in {ParkOnError(err, parkMode)} :
          /\ Install(IF on.drain THEN StDrain(pp[1], cq) ELSE pp[1])
          /\ cq' = IF on.drain THEN <<>> ELSE cq
          /\ parkMode' = on.mode
          /\ rpc' = IF on.again THEN "submit" ELSE err
    /\ UNCHANGED <<owner, scenario, submitted>>

ParkErrNext ==
    \/ RingStart("race")
    \/ \E D \in SUBSET Obs : RootPending(D) /\ RingOthers
    \/ \E D \in SUBSET Obs : RootReady(D) /\ RingOthers
    \/ LoopSkipRoot /\ RingOthers
    \/ \E D \in SUBSET Obs : RunTask(D) /\ RingOthers
    \/ LoopPark /\ RingOthers
    \/ ExecutorDrop /\ RingOthers
    \/ ShutdownReturn /\ RingOthers
    \/ ShutdownIter /\ RingOthers
    \/ DriverDrop /\ RingOthers
    \/ ParkEnter /\ RingOthers
    \/ ParkSubmitOk /\ RingOthers
    \/ \E err \in SubmitErrors : ParkSubmitErr(err) /\ RingOthers
    \/ ParkReturn /\ RingOthers
    \/ \E o \in Obs : KernelFinal(o)
    \/ KernelOwn

\* The driver under block_on on a ring whose io_uring_enter may fail.
SpecParkErr == Init /\ [][ParkErrNext]_vars

\* Unparker::wake called from another thread: the unparker is marked woken and
\* its descriptor written.
CrossWake ==
    /\ rpc \notin {"setup", "dropped"}
    /\ ~unparker.woken
    /\ unparker' = [unparker EXCEPT !.woken = TRUE]
    /\ UNCHANGED <<sq, inflight, entry, waiters, count, rec, opf, runqueue, rootNotified,
                   pst, status, cq, owner, scenario, rpc, submitted, parkMode>>

Unpark == CrossWake /\ RingOthers

RingWakeNext ==
    \/ RingStart("race")
    \/ RingRun
    \/ \E o \in Obs : KernelFinal(o)
    \/ KernelOwn
    \/ Unpark

\* The driver under block_on while other threads wake its unparker.
SpecRingWake == Init /\ [][RingWakeNext]_vars

\* ------------------------------------------------- push futures, unit level

\* What the calls on push futures leave alone.
PushOthers ==
    UNCHANGED <<closed, list, cell, handle, outcomes, hist, epc, blockResult, extFired,
                lost, cq, owner, scenario, rpc, submitted, parkMode, fdst, io>>

\* Handle::push(entry): a push future for operation o is created.
PushNew(o) ==
    /\ opf[o] = "none"
    /\ opf' = [opf EXCEPT ![o] = "new"]
    /\ rec' = [rec EXCEPT ![o] = HeaderNew]
    /\ UNCHANGED <<sq, inflight, entry, waiters, count, runqueue, rootNotified, pst,
                   status, unparker>>
    /\ PushOthers

\* PushFuture::poll on a push future that has not resolved yet.
PushPoll(o) ==
    /\ opf[o] \in {"new", "waiting"}
    /\ \E S \in {StPollPush(Cur, o)} : Install(S)
    /\ PushOthers

\* PushFuture::drop on a push future that has not resolved yet.
PushDrop(o) ==
    /\ opf[o] \in {"new", "waiting"}
    /\ \E S \in {StDropOp(Cur, o)} : Install(S)
    /\ PushOthers

\* Shared::submit(NoPark).
PushSubmit ==
    /\ sq # <<>>
    /\ \E S \in {StSubmit(Cur)} : Install(S)
    /\ PushOthers

\* Shared::set_status as the driver calls it: Draining from Driver::shutdown,
\* Shutdown from Driver::drain.
PushSetStatus(st) ==
    /\ \/ status = "Running" /\ st = "Draining"
       \/ status = "Draining" /\ st = "Shutdown"
    /\ \E S \in {StSetStatus(Cur, st)} : Install(S)
    /\ PushOthers

PushNext ==
    \/ \E o \in Obs : PushNew(o)
    \/ \E o \in Obs : PushPoll(o)
    \/ \E o \in Obs : PushDrop(o)
    \/ PushSubmit
    \/ \E st \in {"Draining", "Shutdown"} : PushSetStatus(st)

\* Push futures polled and dropped in any order while entries are submitted and
\* the driver's status changes.
SpecPush == Init /\ [][PushNext]_vars

\* Op::drop on an operation whose entry was pushed and has not completed:
\* Shared::cancel.
PushCancel(o) ==
    /\ opf[o] = "inflight"
    /\ \E S \in {StDropOp(Cur, o)} : Install(S)
    /\ PushOthers

\* Handle::close_fd on this ring: Shared::close_fd hands a Close entry to
\* try_push_raw_submit.
PushCloseFd ==
    /\ \E S \in {StTryPushRawSubmit(Cur, SQCap, CLOSE_FD_TOKEN)} : Install(S)
    /\ PushOthers

SubmitNext ==
    \/ PushNext
    \/ \E o \in Obs : PushCancel(o)
    \/ PushCloseFd

\* Push futures, submissions, cancels and closes of descriptors on one ring.
SpecSubmit == Init /\ [][SubmitNext]_vars

\* Handle::cancel(criteria, sync) while a request is pushed or in flight.
HandleCancel(sync) ==
    /\ \E o \in Obs : opf[o] = "inflight"
    /\ \E S \in {SharedCancel(Cur, sync)} : Install(S)
    /\ PushOthers

CancelNext ==
    \/ SubmitNext
    \/ \E sync \in BOOLEAN : HandleCancel(sync)

\* The push harness with cancels issued through the handle.
SpecCancel == Init /\ [][CancelNext]_vars

\* ---------------------------------------------------------- file descriptors

\* What the calls on a FaserFd leave alone.
FdOthers ==
    UNCHANGED <<closed, list, cell, handle, outcomes, hist, epc, blockResult, extFired,
                lost, cq, owner, scenario, rpc, submitted, parkMode, io>>

\* FaserFd::from_fd / from_fixed: Rc::new(Inner).
FdNew ==
    /\ fdst.state = "none"
    /\ fdst' = [fdst EXCEPT !.state = "open", !.refs = 1]
    /\ UNCHANGED curVars
    /\ FdOthers

\* FaserFd::clone: the Rc's strong count goes up.
FdClone ==
    /\ fdst.state = "open"
    /\ fdst.clones < MaxFdRefs
    /\ fdst' = [fdst EXCEPT !.refs = @ + 1, !.clones = @ + 1]
    /\ UNCHANGED curVars
    /\ FdOthers

\* Drop of a clone that is not the last: the strong count goes down.
FdDropClone ==
    /\ fdst.state = "open"
    /\ fdst.refs > 1
    /\ fdst' = [fdst EXCEPT !.refs = @ - 1]
    /\ UNCHANGED curVars
    /\ FdOthers

\* Drop of the last clone: Inner::drop calls Handle::close_fd, which hands a
\* Close entry tagged CLOSE_FD_TOKEN to try_push_raw_submit; an error is logged.
FdDropLast ==
    /\ fdst.state = "open"
    /\ fdst.refs = 1
    /\ \E S \in {StTryPushRawSubmit(Cur, FdSQCap, CLOSE_FD_TOKEN)} :
          /\ Install(S)
          /\ fdst' = [state |-> "closed", refs |-> 0, clones |-> fdst.clones,
                      closes |-> Count(S.sq, CLOSE_FD_TOKEN),
                      failed |-> ~TryPushRawSubmitOk(Cur, FdSQCap, CLOSE_FD_TOKEN)]
    /\ FdOthers

\* Shared::try_push_raw of some other request on the same ring.
FdPushOther(o) ==
    /\ Len(sq) < FdSQCap
    /\ sq' = TryPushRawAt(FdSQCap, sq, Addr(o))
    /\ UNCHANGED <<inflight, entry, waiters, count, rec, opf, runqueue, rootNotified,
                   pst, status, unparker, fdst>>
    /\ FdOthers

\* Shared::submit(NoPark).
FdSubmit ==
    /\ sq # <<>>
    /\ \E S \in {StSubmit(Cur)} : Install(S)
    /\ UNCHANGED fdst
    /\ FdOthers

FdNext ==
    \/ FdNew
    \/ FdClone
    \/ FdDropClone
    \/ FdDropLast
    \/ \E o \in Obs : FdPushOther(o)
    \/ FdSubmit

\* One descriptor cloned and dropped on a driver whose ring other requests use.
SpecFd == Init /\ [][FdNext]_vars

\* Handle::current(): DriverContext::handle() is Some from block_on's
\* self.park.enter() until block_on returns and the guard is dropped.
HandleCurrent(pc) == pc = "run"

\* What the steps of the executor around a FaserFd leave alone.
CtxOthers ==
    UNCHANGED <<closed, list, cell, handle, outcomes, hist, epc, blockResult, extFired,
                lost, cq, owner, scenario, submitted, parkMode, io>>

\* block_on is entered: DriverContext::enter sets the handle.
CtxEnter ==
    /\ rpc = "setup"
    /\ rpc' = "run"
    /\ UNCHANGED <<curVars, fdst>>
    /\ CtxOthers

\* block_on returns: the guard is dropped and the handle unset. Tasks that
\* have not finished keep their futures.
CtxReturn ==
    /\ rpc = "run"
    /\ rpc' = "drop"
    /\ UNCHANGED <<curVars, fdst>>
    /\ CtxOthers

\* Inner::drop: Handle::current() panics when no handle is set; otherwise the
\* Close entry is handed to close_fd.
InnerDrop ==
    IF HandleCurrent(rpc)
    THEN \E S \in {StTryPushRawSubmit(Cur, FdSQCap, CLOSE_FD_TOKEN)} :
            /\ Install(S)
            /\ fdst' = [state |-> "closed", refs |-> 0, clones |-> fdst.clones,
                        closes |-> Count(S.sq, CLOSE_FD_TOKEN),
                        failed |-> ~TryPushRawSubmitOk(Cur, FdSQCap, CLOSE_FD_TOKEN)]
    ELSE /\ fdst' = [fdst EXCEPT !.state = "panicked", !.refs = 0]
         /\ UNCHANGED curVars

\* A task polled by block_on drops the last clone of its FaserFd.
CtxDropLast ==
    /\ rpc = "run"
    /\ fdst.state = "open"
    /\ fdst.refs = 1
    /\ InnerDrop
    /\ UNCHANGED rpc
    /\ CtxOthers

\* LocalExecutor::drop, taskqueue.shutdown(): the futures of the tasks that
\* have not finished are dropped, and with them every clone of the FaserFd
\* they hold; park.shutdown() follows.
CtxShutdown ==
    /\ rpc = "drop"
    /\ IF fdst.state = "open" THEN InnerDrop ELSE UNCHANGED <<curVars, fdst>>
    /\ rpc' = "sd"
    /\ CtxOthers

FdCtxNext ==
    \/ CtxEnter
    \/ rpc = "run" /\ FdNew
    \/ rpc = "run" /\ FdClone
    \/ rpc = "run" /\ FdDropClone
    \/ CtxDropLast
    \/ \E o \in Obs : rpc = "run" /\ FdPushOther(o)
    \/ rpc = "run" /\ FdSubmit
    \/ CtxReturn
    \/ CtxShutdown

\* A FaserFd held by a spawned task, from block_on to the drop of the executor.
SpecFdCtx == Init /\ [][FdCtxNext]_vars

\* ------------------------------------------------- buffer-taking operations

\* The buffers an operation can be handed: an identity, the number of
\* initialized bytes (len) and the capacity. A Box<[u8]> is all initialized.
Buffers(kind) ==
    {b \in [id : {1, 2}, len : 0..MaxBuf, cap : 0..MaxBuf] :
        /\ b.len <= b.cap
        /\ kind = "Box" => b.len = b.cap}

\* The buffer types each operation is used with: StableBufMut for read_at,
\* bytes::BufMut for recv_from; write_at and send_to only read their buffer.
BufKinds(op) ==
    IF op = "read_at" THEN {"Vec", "Box", "BytesMut"}
    ELSE IF op = "recv_from" THEN {"Vec", "BytesMut"}
    ELSE {"Bytes"}

\* The length the configured entry gives the kernel: bytes_remaining() for
\* read_at, bytes_init() for write_at, the chunk for send_to and recv_from.
EntryLen(op, kind, b) ==
    IF op = "read_at" THEN (IF kind = "Box" THEN b.len ELSE b.cap)
    ELSE IF op = "recv_from" THEN b.cap - b.len
    ELSE b.len

\* The completions the kernel can post: an error, or a byte count within the
\* length it was given.
CQEResults(op, kind, b) ==
    {[ok |-> FALSE, n |-> 0]} \cup {[ok |-> TRUE, n |-> k] : k \in 0..EntryLen(op, kind, b)}

\* StableBufMut::set_init for Vec<u8>, Box<[u8]> and BytesMut.
SetInit(kind, b, n) ==
    IF kind = "Vec" THEN [b EXCEPT !.len = n]
    ELSE IF kind = "Box" THEN b
    ELSE [b EXCEPT !.len = IF @ < n THEN n ELSE @]

\* BufMut::advance_mut: the initialized length grows by n.
AdvanceMut(b, n) == [b EXCEPT !.len = @ + n]

\* A buffer that is not the one handed in.
FreshBuf == [id |-> 0, len |-> 0, cap |-> 0]

\* Mutant of ReadAtComplete: on an error the buffer is not handed back.
ReadAtCompleteDropsBuf(kind, b, res) ==
    IF res.ok THEN <<res, SetInit(kind, b, res.n)>> ELSE <<res, FreshBuf>>

\* ReadAt::complete: <<result, buffer>>.
ReadAtComplete(kind, b, res) ==
    IF res.ok THEN <<res, SetInit(kind, b, res.n)>> ELSE <<res, b>>

\* WriteAt::complete
WriteAtComplete(b, res) == IF res.ok THEN <<res, b>> ELSE <<res, b>>

\* SendTo::complete
SendToComplete(b, res) == <<res, b>>

\* RecvFrom::complete
RecvFromComplete(b, res) == IF res.ok THEN <<res, AdvanceMut(b, res.n)>> ELSE <<res, b>>

\* Singleshot::complete of the operation op.
IoComplete(op, kind, b, res) ==
    IF op = "read_at" THEN ReadAtComplete(kind, b, res)
    ELSE IF op = "write_at" THEN WriteAtComplete(b, res)
    ELSE IF op = "send_to" THEN SendToComplete(b, res)
    ELSE RecvFromComplete(b, res)

\* What the calls on one I/O operation leave alone.
IoOthers == UNCHANGED <<taskVars, execVars, notifyVars, status, sq, inflight, cq, rec, opf,
                        owner, scenario, unparker, rpc, pst, submitted, fdst>>

\* read_at / write_at / send_to / recv_from(buf, ..): the operation takes the
\* buffer.
IoStart(op) ==
    /\ io.stage = "none"
    /\ \E kind \in BufKinds(op) : \E b \in Buffers(kind) :
          io' = [stage |-> "submitted", op |-> op, kind |-> kind, buf |-> b]
    /\ IoOthers

\* The kernel's completion arrives and the future resolves with
\* Singleshot::complete(self, result).
IoFinish ==
    /\ io.stage = "submitted"
    /\ \E res \in CQEResults(io.op, io.kind, io.buf) :
          io' = [stage |-> "completed", op |-> io.op, kind |-> io.kind, buf |-> io.buf,
                 res |-> res,
                 out |-> IoComplete(io.op, io.kind, io.buf, res)]
    /\ IoOthers

IoNext ==
    \/ \E op \in {"read_at", "write_at", "send_to", "recv_from"} : IoStart(op)
    \/ IoFinish

\* One buffer-taking operation from the call to its output.
SpecIo == Init /\ [][IoNext]_vars

\* Operations whose completion hands over a resource of the kernel.
CleanupOps == {"open", "socket", "recv_from_ring"}

\* Open::cleanup, OpenSocket::cleanup, RecvFromRing::cleanup: what the hook does
\* with the completion it is given.
CleanupEffect(op, ok) ==
    IF ~ok THEN "none"
    ELSE IF op = "recv_from_ring" THEN "return_buf"
    ELSE "drop_fd"

\* What the steps of one resource-returning operation leave alone.
ClOthers ==
    UNCHANGED <<closed, list, cell, handle, outcomes, hist, epc, blockResult, extFired,
                lost, cq, owner, scenario, submitted, parkMode>>

\* open / socket / recv_from_ring is submitted by a task inside block_on.
ClStart(op) ==
    /\ rpc = "run"
    /\ io.stage = "none"
    /\ io' = [stage |-> "inflight", op |-> op, dropped |-> FALSE, ok |-> FALSE,
              cleanups |-> 0, completes |-> 0, returned |-> FALSE]
    /\ UNCHANGED <<rpc, curVars, fdst>>
    /\ ClOthers

\* The kernel posts the operation's only completion.
ClKernel(ok) ==
    /\ rpc \in {"run", "drop", "sd"}
    /\ io.stage = "inflight"
    /\ io' = [io EXCEPT !.stage = "posted", !.ok = ok]
    /\ UNCHANGED <<rpc, curVars, fdst>>
    /\ ClOthers

\* The task drops the future before its completion was reaped.
ClDropFuture ==
    /\ rpc = "run"
    /\ io.stage \in {"inflight", "posted"}
    /\ ~io.dropped
    /\ io' = [io EXCEPT !.dropped = TRUE]
    /\ UNCHANGED <<rpc, curVars, fdst>>
    /\ ClOthers

\* LocalExecutor::drop, taskqueue.shutdown(): the task's future is dropped with
\* the operation it awaits; park.shutdown() follows.
ClExecutorDrop ==
    /\ rpc = "drop"
    /\ rpc' = "sd"
    /\ io' = IF io.stage \in {"inflight", "posted"} THEN [io EXCEPT !.dropped = TRUE] ELSE io
    /\ UNCHANGED <<curVars, fdst>>
    /\ ClOthers

\* drain, complete_operation: a park of block_on or of Driver::shutdown reaps
\* the completion. With the future gone the completion goes to cleanup, which
\* drops the FaserFd made from a returned descriptor or gives the selected
\* buffer back; otherwise it is stored for the future.
ClReap ==
    /\ rpc \in {"run", "sd"}
    /\ io.stage = "posted"
    /\ IF io.dropped
       THEN /\ io' = [io EXCEPT !.stage = "cleaned", !.cleanups = @ + 1,
                                !.returned = CleanupEffect(io.op, io.ok) = "return_buf"]
            /\ IF CleanupEffect(io.op, io.ok) = "drop_fd"
               THEN InnerDrop
               ELSE UNCHANGED <<curVars, fdst>>
       ELSE /\ io' = [io EXCEPT !.stage = "stored"]
            /\ UNCHANGED <<curVars, fdst>>
    /\ UNCHANGED rpc
    /\ ClOthers

\* The future is polled and resolves through Singleshot::complete.
ClComplete ==
    /\ rpc = "run"
    /\ io.stage = "stored"
    /\ io' = [io EXCEPT !.stage = "consumed", !.completes = @ + 1]
    /\ UNCHANGED <<rpc, curVars, fdst>>
    /\ ClOthers

CleanupNext ==
    \/ CtxEnter
    \/ \E op \in CleanupOps : ClStart(op)
    \/ \E ok \in BOOLEAN : ClKernel(ok)
    \/ ClDropFuture
    \/ ClReap
    \/ ClComplete
    \/ \E o \in Obs : rpc = "run" /\ FdPushOther(o)
    \/ rpc = "run" /\ FdSubmit
    \/ CtxReturn
    \/ ClExecutorDrop

\* One resource-returning operation from block_on to the driver's shutdown.
SpecCleanup == Init /\ [][CleanupNext]_vars

\* ----------------------------------------------------------- claims: Notify

NCompleted == Cardinality({e \in Obs : entry[e].state = "Completed"})

NFiredAlive == Cardinality({e \in Obs : entry[e].state = "Fired" /\ ~entry[e].dropped})

NFiredDropped == Cardinality({e \in Obs : entry[e].state = "Fired" /\ entry[e].dropped})

\* C4: drop-forwards. Every notification handed out by notify(n) is either held
\* by a live Fired observer or has been consumed by exactly one observer that
\* completed its wait; a notification is lost only when a Fired observer was
\* dropped while no waiter was linked. So once no live Fired observer remains
\* and a waiter was there for every forwarded notification, exactly as many
\* observers completed as notify(n) fired, however many Fired ones were dropped.
C4_DropForwards ==
    /\ NCompleted + NFiredAlive + lost = extFired
    /\ (NFiredAlive = 0 /\ lost = 0) => (NCompleted = extFired)

\* C4 witness: notify fired one observer, that observer was dropped while Fired,
\* and the next waiter completed in its place; a Completed observer was dropped
\* as well and forwarded nothing.
C4_Witness ==
    /\ extFired = 2 /\ lost = 0 /\ NFiredDropped = 1 /\ NCompleted = 2
    /\ \E e \in Obs : entry[e].state = "Completed" /\ entry[e].dropped
    /\ NFiredAlive = 0

\* --------------------------------------------------------- claims: executor

\* C2: block_on returns exactly when a poll of the root returns Ready, with
\* that value; the task whose join handle the root awaits (spawned before or
\* during block_on) is eventually run by the loop, its completion wakes the
\* root, and the root observes Ok(output).
C2_ReturnsOnReady ==
    /\ (epc' = "done" /\ epc # "done")
          => /\ epc = "root" /\ IsNotified(rootNotified)
             /\ JoinWouldYield(RootTask) # "Pending"
             /\ blockResult' = JoinWouldYield(RootTask)
    /\ (ExecPollRoot /\ JoinWouldYield(RootTask) # "Pending") => (epc' = "done")
    /\ (epc # "done") => (blockResult = "None")

C2_CompletionWakesRoot ==
    (~cell[RootTask].complete /\ cell'[RootTask].complete /\ cell[RootTask].joinWaker)
        => rootNotified'

C1_ExactlyOneOutcome ==
    \A t \in Tasks :
        /\ Len(outcomes[t]) <= 1
        /\ (handle[t] = "joined") => (Len(outcomes[t]) = 1)
        /\ (handle[t] = "live" /\ (cell[t].complete \/ hist[t].shutdown))
              => (JoinWouldYield(t) \in {"Ok", "Cancelled", "Panicked"})
        /\ \A i \in 1..Len(outcomes[t]) :
              /\ outcomes[t][i] \in {"Ok", "Cancelled", "Panicked"}
              /\ (outcomes[t][i] = "Ok") => (~hist[t].abortIdle /\ ~hist[t].panicked)
              /\ (outcomes[t][i] = "Cancelled") => (hist[t].abort \/ hist[t].shutdown)
              /\ (outcomes[t][i] = "Panicked") => hist[t].panicked

\* C1 witness: one task joined Ok and another joined Cancelled after an abort.
C1_Witness ==
    \E t, u \in Tasks :
        /\ outcomes[t] = <<"Ok">>
        /\ outcomes[u] = <<"Cancelled">> /\ hist[u].abortIdle /\ ~hist[u].shutdown

\* C6: a spawn on a closed task set publishes no runnable and never polls the
\* future; the future is dropped inside spawn and the first poll of the join
\* handle is Ready(Err(Cancelled)) (the join waker is never registered).
C6_SpawnAfterClose ==
    \A t \in Tasks :
        hist[t].bornClosed =>
            /\ ~InSeq(runqueue, t)
            /\ ~InSeq(list, t)
            /\ cell[t].polls = 0
            /\ cell[t].body = "Empty"
            /\ ~cell[t].joinWaker
            /\ (handle[t] = "live") => (JoinWouldYield(t) = "Cancelled")
            /\ (handle[t] = "joined") => (outcomes[t] = <<"Cancelled">>)

\* C6 witness: a task spawned after shutdown whose join handle was polled.
C6_Witness ==
    \E t \in Tasks :
        hist[t].bornClosed /\ handle[t] = "joined" /\ outcomes[t] = <<"Cancelled">>

\* C7: abort() on a task that is neither Running nor Complete leaves a runnable
\* for it in the queue without any wake and does not drop the future; running
\* that runnable does not poll the future, drops it, and the join handle then
\* resolves to Err(Cancelled).
C7_AbortStep(t) ==
    (Abort(t) /\ ~cell[t].running /\ ~cell[t].complete)
        => /\ Count(runqueue', t) = 1
           /\ cell'[t].body = "Future"
           /\ cell'[t].polls = cell[t].polls
           /\ ~cell'[t].complete

C7_RunStep(t) ==
    (RunBegin /\ Head(runqueue) = t /\ hist[t].abortIdle /\ ~cell[t].complete)
        => /\ cell'[t].polls = cell[t].polls
           /\ ~cell'[t].running
           /\ cell'[t].complete
           /\ cell'[t].body = "Empty"
           /\ (handle[t] = "live") => (cell'[t].result = "Cancelled")

C7_AbortSchedules ==
    /\ [](\A t \in Tasks : (hist[t].abortIdle /\ ~cell[t].complete) => InSeq(runqueue, t))
    /\ [][\A t \in Tasks : C7_AbortStep(t) /\ C7_RunStep(t)]_vars

\* C7 witness: a task suspended after a Pending poll was aborted, its runnable
\* was run without a further poll, and the join resolved to Cancelled.
C7_Witness ==
    \E t \in Tasks :
        /\ hist[t].abortIdle /\ ~hist[t].shutdown
        /\ cell[t].polls = 1 /\ cell[t].complete /\ cell[t].body = "Empty"
        /\ outcomes[t] = <<"Cancelled">>

\* C8: a panic during a poll is caught by Runnable::run: the run returns (no
\* task is left Running, the queue is untouched), the cell is Complete with
\* Panicked, the future is dropped, no output exists, and the join handle
\* resolves to Err(Panicked), also after a later abort().
C8_PanicState(t) ==
    hist[t].panicked =>
        /\ cell[t].complete /\ ~cell[t].running
        /\ cell[t].body = "Empty"
        /\ (handle[t] = "live") => (JoinWouldYield(t) = "Panicked")
        /\ (handle[t] = "joined") => (outcomes[t] = <<"Panicked">>)

C8_PanicCaught ==
    /\ [](\A t \in Tasks : C8_PanicState(t))
    /\ [][\A t \in Tasks : RunPanic(t) => (NoneRunning' /\ runqueue' = runqueue)]_vars

\* C8 witness: a task panicked, was aborted afterwards, and joined as Panicked.
C8_Witness ==
    \E t \in Tasks :
        /\ hist[t].panicked /\ cell[t].cancelled
        /\ handle[t] = "joined" /\ outcomes[t] = <<"Panicked">>

\* ------------------------------------------------------ claims: ring driver

\* The kernel holds a reference to operation o's record: its entry was pushed
\* and its final completion has not been dispatched.
KernelHolds(o) == rec[o].pushed /\ ~rec[o].complete

\* C3: An operation record is freed only after both its future has released
\* its reference and, if its entry was pushed, a completion without "more" has
\* been reaped for it: the reference count is exactly one for a live future
\* plus one for the kernel's reference, completions with "more" and a future
\* dropped in flight leave the kernel's reference in place, no assertion of
\* the Header fails (no underflow, no use after free), and the record is freed
\* exactly once, when the count reaches zero.
C3_RecordFreedOnce ==
    \A o \in Obs :
        /\ ~rec[o].fault
        /\ rec[o].freed <= 1
        /\ rec[o].freed = 1 => (~Live(opf[o]) /\ ~KernelHolds(o))
        /\ opf[o] # "none" =>
              /\ rec[o].refcount = (IF Live(opf[o]) THEN 1 ELSE 0)
                                   + (IF KernelHolds(o) THEN 1 ELSE 0)
              /\ (rec[o].freed = 1) <=> (rec[o].refcount = 0)

\* C3 witness: a future was dropped while its request was in flight, a
\* completion with "more" was delivered to the record, and the record was freed
\* by the final completion.
C3_Witness ==
    \E o \in Obs :
        /\ rec[o].dropInFlight /\ rec[o].mores >= 1
        /\ rec[o].complete /\ rec[o].freed = 1 /\ rec[o].refcount = 0

\* C5: When Driver::shutdown returns the status is Shutdown, and from the
\* moment the DRAIN completion is processed no operation record is owned by
\* the kernel: every pushed request has had its final completion dispatched.
C5_ShutdownDrained ==
    /\ rpc = "closed" => status = "Shutdown"
    /\ status = "Shutdown" =>
          \A o \in Obs :
              /\ ~KernelHolds(o)
              /\ Addr(o) \notin inflight
              /\ Addr(o) \notin Range(sq)
              /\ \A i \in DOMAIN cq : cq[i].ud # Addr(o)

\* C5 witness: shutdown has returned, and a request the kernel still owned when
\* shutdown began was completed and its record freed.
C5_Witness ==
    /\ rpc = "closed"
    /\ \E o \in Obs : rec[o].atShutdown /\ rec[o].complete /\ rec[o].freed = 1

\* C9: Every push future that suspended on the backpressure notifier is
\* eventually woken and resolves, while the executor thread keeps taking steps
\* and whether or not the kernel completes any request already submitted.
C9_BackpressureProgress ==
    \A o \in Obs : (opf[o] = "waiting") ~> (opf[o] # "waiting")

\* C9, the state the executor thread is stuck in: it waits in
\* submit_with_args(1) for a completion, the submission queue is empty, one
\* push future has been fired and its task is queued, another is still linked.
C9_Stuck ==
    /\ rpc = "park_wait" /\ status = "Running"
    /\ sq = <<>> /\ cq = <<>> /\ count > 0
    /\ \E o \in Obs : /\ opf[o] = "waiting" /\ entry[o].state = "Fired"
                      /\ owner[o] \in Tasks /\ pst[owner[o]] = "queued"

\* block_on has returned.
BlockOnReturned == rpc \in {"drop", "sd", "closed"}

\* C10: With more operations than the submission queue holds, each completing
\* on its own, and a root that joins them all: the submission queue never holds
\* more than its capacity, block_on returns, and when it has returned every
\* operation has completed.
C10_ConcurrentSubmit ==
    /\ [](Len(sq) <= SQCap)
    /\ [](BlockOnReturned => \A o \in Obs : opf[o] = "done" /\ rec[o].complete)
    /\ <>BlockOnReturned

\* C10 witness: block_on has returned with every operation completed, and a
\* push had to wait on the backpressure notifier.
C10_Witness ==
    /\ BlockOnReturned /\ NumObs > SQCap
    /\ \A o \in Obs : opf[o] = "done" /\ rec[o].complete
    /\ \E o \in Obs : rec[o].waited

\* C11: A poll of a push future while the status is not Running resolves it to
\* ShuttingDown and leaves the submission queue as it was; an entry is pushed
\* only in status Running; a status change fires every backpressure waiter and
\* wakes it, so that once the driver has left Running no observer is linked
\* and every suspended push future is fired.
C11_PollStep(o) ==
    /\ (PushPoll(o) /\ status # "Running") => (opf'[o] = "err" /\ sq' = sq)
    /\ (opf[o] # "inflight" /\ opf'[o] = "inflight") => status = "Running"

C11_StatusStep ==
    (status' # status /\ waiters # <<>>) => (waiters' = <<>> /\ rootNotified')

C11_ShuttingDown ==
    /\ [](status # "Running" =>
             /\ waiters = <<>> /\ count = 0
             /\ \A o \in Obs : opf[o] = "waiting" => entry[o].state = "Fired")
    /\ [][C11_StatusStep /\ \A o \in Obs : C11_PollStep(o)]_vars

\* C11 witness: a push future that was suspended on backpressure when the
\* status changed has resolved to ShuttingDown, and nothing of it was pushed.
C11_Witness ==
    /\ status # "Running"
    /\ \E o \in Obs : opf[o] = "err" /\ rec[o].waited /\ ~rec[o].pushed

\* C12: No Close request for a descriptor is pushed while a clone of it is
\* alive, and when the last clone has been dropped exactly one Close request,
\* never two, has been pushed, whether the submission queue had room at the
\* first attempt or was full and had to be submitted first.
C12_ExactlyOneClose ==
    /\ fdst.refs > 0 => (fdst.closes = 0 /\ CLOSE_FD_TOKEN \notin Range(sq))
    /\ fdst.state = "closed" => fdst.closes = 1

\* C12, the failing case: the last clone was dropped while the submission
\* queue had two free slots, and two Close requests for the descriptor are in
\* the queue.
C12_ClosedTwice ==
    /\ fdst.state = "closed" /\ fdst.closes = 2 /\ ~fdst.failed
    /\ Count(sq, CLOSE_FD_TOKEN) = 2

\* C13: When park.park(mode) returns an error, block_on returns that error to
\* its caller as a value; the executor does not panic because of it.
C13_ParkErrorReturned ==
    /\ [][ExecParkFails => (epc' = "done" /\ blockResult' = "Err")]_vars
    /\ [](epc # "panicked")

\* C13, the failing case: park returned an error after the loop had run a
\* task, and block_on panicked without a result.
C13_Panicked ==
    epc = "panicked" /\ blockResult = "None" /\ cell[RootTask].polls >= 1

\* C14: A completed read_at, write_at, send_to or recv_from returns the kernel's
\* result together with the very buffer it was handed (same identity, same
\* capacity). On an error, and after any write or send, the buffer is exactly
\* as it was handed in; after a read of n bytes the initialized length covers
\* the n bytes read, and after a recv of n bytes it has grown by n.
C14_BufferRoundTrip ==
    io.stage = "completed" =>
        /\ io.out[1] = io.res
        /\ io.out[2].id = io.buf.id /\ io.out[2].cap = io.buf.cap
        /\ (~io.res.ok \/ io.op \in {"write_at", "send_to"}) => io.out[2] = io.buf
        /\ (io.res.ok /\ io.op = "read_at") =>
               /\ io.out[2].len >= io.res.n
               /\ io.out[2].len \in {io.res.n, io.buf.len}
        /\ (io.res.ok /\ io.op = "recv_from") => io.out[2].len = io.buf.len + io.res.n
        /\ io.out[2].len <= io.out[2].cap

\* C14 witness: a read_at into a partly initialized buffer failed and handed
\* the buffer back as it was.
C14_Witness ==
    /\ io.stage = "completed" /\ io.op = "read_at" /\ ~io.res.ok
    /\ io.buf.len = 1 /\ io.buf.cap = 2 /\ io.out[2] = io.buf

\* C15: abort() is idempotent. A step that calls abort() twice in a row leaves
\* the cell (header state, future, stored result), the ready queue, the task
\* set and the join handle exactly as a single abort() would, so what the next
\* join poll yields is the same; and a task is never in the ready queue twice.
C15_TwiceStep(t) ==
    AbortTwice(t) =>
        /\ cell' = [cell EXCEPT ![t] = AbortCell(cell[t])]
        /\ runqueue' = AbortQueue(runqueue, cell[t], t)
        /\ cell'[t].body = cell[t].body
        /\ UNCHANGED <<closed, list, handle, outcomes, rootNotified>>

C15_AbortIdempotent ==
    /\ [](\A t \in Tasks : Count(runqueue, t) <= 1)
    /\ [][\A t \in Tasks : C15_TwiceStep(t)]_vars

\* C15 witness: an idle task that had been polled was aborted twice in a row
\* and sits in the ready queue once, its future still in place.
C15_Witness ==
    \E t \in Tasks :
        /\ hist[t].abortTwice /\ cell[t].cancelled /\ ~cell[t].complete
        /\ cell[t].polls >= 1 /\ cell[t].body = "Future"
        /\ Count(runqueue, t) = 1

\* C16: abort() on a task that completed normally has no effect on the result.
\* The abort step schedules nothing and leaves the stored output and result in
\* place, so a live handle's next join poll still yields Ok; and a stored
\* output leaves the cell only in a step that joins or drops the handle.
C16_AbortStep(t) ==
    (Abort(t) /\ cell[t].complete /\ cell[t].result = "Ok") =>
        /\ runqueue' = runqueue
        /\ ~cell'[t].scheduled
        /\ cell'[t].body = cell[t].body /\ cell'[t].result = "Ok"
        /\ handle[t] = "live" => (JoinWouldYield(t)' = "Ok" /\ cell'[t].body = "Output")

C16_OutputStep(t) ==
    (cell[t].body = "Output" /\ cell'[t].body # "Output") =>
        /\ handle[t] = "live" /\ handle'[t] \in {"joined", "dropped"}
        /\ handle'[t] = "joined" => outcomes'[t] = Append(outcomes[t], "Ok")

C16_AbortAfterCompletion ==
    /\ [](\A t \in Tasks : cell[t].body = "Output" =>
              (cell[t].complete /\ cell[t].result = "Ok" /\ handle[t] = "live"))
    /\ [][\A t \in Tasks : C16_AbortStep(t) /\ C16_OutputStep(t)]_vars

\* C16 witness: a task that was only ever aborted after it had completed was
\* joined with Ok.
C16_Witness ==
    \E t \in Tasks :
        /\ cell[t].cancelled /\ ~hist[t].abort /\ ~hist[t].shutdown
        /\ handle[t] = "joined" /\ outcomes[t] = <<"Ok">>
        /\ ~InSeq(runqueue, t)

\* C17: the shutdown step leaves the set closed and empty and every task that
\* was registered and not complete is Complete with its future dropped and, for
\* a live handle, a join that yields Cancelled, aborted before or not. From
\* then on the set stays closed and empty with no future left, a task shut
\* down by it joins with Cancelled only, and an abort() only sets the
\* Cancelled flag of the finished cell.
C17_ShutdownStep ==
    Shutdown =>
        /\ closed' /\ list' = <<>>
        /\ \A t \in Tasks :
              IF InSeq(list, t) /\ ~cell[t].complete
              THEN /\ cell'[t].complete /\ cell'[t].body = "Empty"
                   /\ handle[t] = "live" => JoinWouldYield(t)' = "Cancelled"
              ELSE cell'[t] = cell[t]

C17_AbortStep(t) ==
    (Abort(t) /\ closed) =>
        /\ cell' = [cell EXCEPT ![t].cancelled = TRUE]
        /\ UNCHANGED <<closed, list, runqueue, handle, outcomes, rootNotified>>

C17_AfterShutdown ==
    /\ [](closed => /\ list = <<>>
                    /\ \A t \in Tasks :
                          cell[t].alloc => (cell[t].complete /\ cell[t].body # "Future"))
    /\ [](\A t \in Tasks :
            hist[t].shutdown =>
                /\ cell[t].complete
                /\ handle[t] = "live" => JoinWouldYield(t) = "Cancelled"
                /\ handle[t] = "joined" => outcomes[t] = <<"Cancelled">>)
    /\ [][C17_ShutdownStep /\ \A t \in Tasks : C17_AbortStep(t)]_vars

\* C17 witness: shutdown ran over two registered tasks, one aborted before and
\* one not; both joined with Cancelled, and the second was aborted afterwards.
C17_Witness ==
    \E t, u \in Tasks :
        /\ closed /\ t # u
        /\ hist[t].shutdown /\ ~hist[t].bornClosed /\ hist[t].abort
        /\ hist[u].shutdown /\ ~hist[u].bornClosed /\ ~hist[u].abort /\ cell[u].cancelled
        /\ outcomes[t] = <<"Cancelled">> /\ outcomes[u] = <<"Cancelled">>

\* C18: dropping or detaching the join handle does not cancel the task: the
\* drop step leaves the Cancelled flag, the scheduling state, the future and
\* the ready queue alone, and a task nobody aborted or shut down never ends
\* Cancelled. The output is dropped exactly once and never before a poll
\* returned Ready: at the completion transition iff the handle was gone by
\* then, with the handle iff it was stored and never taken, else by the join.
C18_DropStep(t) ==
    DropHandle(t) =>
        /\ cell'[t].cancelled = cell[t].cancelled
        /\ cell'[t].scheduled = cell[t].scheduled /\ cell'[t].running = cell[t].running
        /\ cell'[t].complete = cell[t].complete /\ cell'[t].polls = cell[t].polls
        /\ cell[t].body = "Future" => cell'[t].body = "Future"
        /\ UNCHANGED <<runqueue, list, closed>>

C18_ReadyStep(t) ==
    (RunReady(t) /\ handle[t] = "dropped") =>
        (hist'[t].outDrops = 1 /\ hist'[t].dropAt = "completion")

C18_HandleDropDoesNotCancel ==
    /\ [](\A t \in Tasks :
            /\ hist[t].outDrops <= 1
            /\ hist[t].outDrops = 1 => (hist[t].ready /\ cell[t].complete)
            /\ hist[t].outDrops = 0 <=> (~hist[t].ready \/ cell[t].body = "Output")
            /\ cell[t].body = "Output" => handle[t] = "live"
            /\ hist[t].dropAt = "handle" => handle[t] = "dropped"
            /\ hist[t].dropAt = "join" => (handle[t] # "live" /\ outcomes[t] = <<"Ok">>)
            /\ cell[t].result = "Cancelled" => (hist[t].abort \/ hist[t].shutdown)
            /\ (cell[t].cancelled /\ ~cell[t].complete) => hist[t].abort)
    /\ [][\A t \in Tasks : C18_DropStep(t) /\ C18_ReadyStep(t)]_vars

\* C18 witness: a task whose handle was dropped while it was pending was woken,
\* polled a second time to completion, and its output was dropped on the spot.
C18_Witness ==
    \E t \in Tasks :
        /\ handle[t] = "dropped" /\ cell[t].polls = 2 /\ cell[t].complete
        /\ ~cell[t].cancelled /\ hist[t].ready
        /\ hist[t].outDrops = 1 /\ hist[t].dropAt = "completion"

\* C19: runnables are dispatched in the order they were published. The runnable
\* TaskQueue::next returns has nothing ahead of it: every runnable published
\* before it (by spawn, wake or abort) was returned before. A queued runnable
\* has exactly the runnables in front of it ahead of it, a step never swaps
\* two queued runnables, and the task a run step runs is the head of the queue.
C19_OrderKept ==
    \A i, j \in 1..Len(runqueue') :
        (i < j /\ InSeq(runqueue, runqueue'[i]) /\ InSeq(runqueue, runqueue'[j])) =>
            \E k, l \in 1..Len(runqueue) :
                k < l /\ runqueue[k] = runqueue'[i] /\ runqueue[l] = runqueue'[j]

C19_NextStep ==
    RunBegin =>
        /\ hist[Head(runqueue)].ahead = {}
        /\ runqueue' = Tail(runqueue)
        /\ \A t \in Tasks : cell'[t] # cell[t] => t = Head(runqueue)

C19_FifoDispatch ==
    /\ [](\A i \in 1..Len(runqueue) :
            hist[runqueue[i]].ahead = {runqueue[k] : k \in 1..(i - 1)})
    /\ [][C19_OrderKept /\ C19_NextStep]_vars

\* C19 witness: task 1 was spawned, polled and woken, task 2 was spawned after
\* that wake and aborted; task 1 has been dispatched for its second poll and
\* task 2, never dispatched, is now at the head.
C19_Witness ==
    /\ cell[1].running /\ cell[1].polls = 2
    /\ runqueue = <<2>> /\ cell[2].polls = 0 /\ cell[2].cancelled /\ ~cell[2].complete
    /\ hist[2].ahead = {}

\* C20: notify(n) with w Linked waiters removes the first min(n, w) entries of
\* the list (the earliest registered, in registration order), fires exactly
\* those, returns min(n, w) and lowers waiters() by it. A fired observer is
\* off the list for good, so it is never fired again, and its next poll is
\* Ready (it becomes Completed).
C20_Min(a, b) == IF a < b THEN a ELSE b

C20_NotifyStep(n) ==
    NNotify(n) =>
        LET w == Len(waiters)
            m == C20_Min(n, w)
        IN /\ count = w
           /\ waiters' = SubSeq(waiters, m + 1, w)
           /\ \A e \in Obs :
                 IF \E i \in 1..m : waiters[i] = e
                 THEN entry[e].state = "Linked" /\ entry'[e].state = "Fired"
                 ELSE entry'[e] = entry[e]
           /\ extFired' = extFired + m
           /\ count' = count - m

C20_EntryStep(e) ==
    /\ (entry[e].state # "Fired" /\ entry'[e].state = "Fired") =>
           (entry[e].state = "Linked" /\ InSeq(waiters, e))
    /\ entry[e].state \in {"Fired", "Completed"} =>
           entry'[e].state \in {"Fired", "Completed"}
    /\ (NPoll(e) /\ entry[e].state = "Fired") => entry'[e].state = "Completed"

C20_NotifyFiresEarliest ==
    /\ [](/\ count = Len(waiters)
          /\ \A e \in Obs : Count(waiters, e) = (IF entry[e].state = "Linked"
                                                     /\ ~entry[e].dropped THEN 1 ELSE 0))
    /\ [][/\ \A n \in 1..NumObs : C20_NotifyStep(n)
          /\ \A e \in Obs : C20_EntryStep(e)]_vars

\* C20 witness: the observers registered in the order 2, 3, 1 (or 3, 2, 1); two
\* notifications were handed out and went to 2 and 3, 1 is still linked.
C20_Witness ==
    /\ waiters = <<1>> /\ count = 1 /\ extFired = 2 /\ lost = 0
    /\ entry[1].state = "Linked"
    /\ entry[2].state = "Fired" /\ entry[3].state = "Fired"
    /\ \A e \in Obs : ~entry[e].dropped

\* C21: Driver::shutdown is idempotent. When the first call has returned the
\* status is Shutdown, and the second call (Driver's Drop) returns at once: it
\* leaves the unparker, the submission and completion queues, the requests in
\* flight, the status and the backpressure list as they were and never parks.
C21_SecondCall ==
    DriverDrop =>
        /\ status = "Shutdown" /\ rpc' = "dropped"
        /\ UNCHANGED <<unparker, sq, inflight, cq, status, submitted, waiters, count,
                       entry, rec, parkMode>>

C21_ShutdownIdempotent ==
    /\ [](rpc \in {"closed", "dropped"} =>
              (status = "Shutdown" /\ DRAIN_TOKEN \notin Range(sq) \cup inflight))
    /\ [][C21_SecondCall]_vars

\* C21 witness: both calls have returned, after a shutdown that began with a
\* request in flight.
C21_Witness ==
    /\ rpc = "dropped" /\ status = "Shutdown" /\ sq = <<>>
    /\ \E o \in Obs : rec[o].atShutdown

\* C22: in every state of a task header, Running implies not Scheduled, the
\* states in which a wake arrived during the poll included.
C22_RunningNotScheduled ==
    \A t \in Tasks : cell[t].running => ~cell[t].scheduled

\* C22, the failing case: a task is being polled, a wake has arrived during
\* the poll and set Scheduled; no runnable of the task is queued.
C22_WokenWhileRunning ==
    \E t \in Tasks :
        /\ cell[t].running /\ cell[t].scheduled /\ ~cell[t].complete
        /\ ~InSeq(runqueue, t)

\* C23: a wake that arrives while the task is Running is neither delivered
\* early nor lost. The wake publishes nothing, and a Running task is never in
\* the ready queue; the run that ends Pending after such a wake publishes the
\* task exactly once (and publishes nothing without one), the run that ends
\* Ready publishes nothing; a task Scheduled and idle is in the queue exactly
\* once, and when its re-published runnable is dispatched it is polled again.
C23_WakeStep(t) ==
    (Wake(t) /\ cell[t].running) => (runqueue' = runqueue /\ cell'[t].scheduled)

C23_RunEndStep(t) ==
    /\ (RunPending(t) /\ cell[t].scheduled) =>
           (runqueue' = Append(runqueue, t) /\ Count(runqueue', t) = 1
            /\ cell'[t].scheduled /\ ~cell'[t].running)
    /\ (RunPending(t) /\ ~cell[t].scheduled) =>
           (runqueue' = runqueue /\ ~InSeq(runqueue', t))
    /\ RunReady(t) => (runqueue' = runqueue /\ ~InSeq(runqueue', t))

C23_AgainStep(t) ==
    (RunBegin /\ Head(runqueue) = t /\ hist[t].republished /\ ~cell[t].cancelled) =>
        (cell'[t].running /\ cell'[t].polls = cell[t].polls + 1)

C23_WakeWhileRunning ==
    /\ [](\A t \in Tasks :
            /\ cell[t].running => ~InSeq(runqueue, t)
            /\ (cell[t].scheduled /\ ~cell[t].running /\ ~cell[t].complete)
                   => Count(runqueue, t) = 1
            /\ hist[t].republished => (Count(runqueue, t) = 1 /\ ~cell[t].complete))
    /\ [][\A t \in Tasks : C23_WakeStep(t) /\ C23_RunEndStep(t) /\ C23_AgainStep(t)]_vars

\* C23 witness: a task woken during its first poll was re-published when that
\* poll returned Pending, and waits in the ready queue for its second poll.
C23_Witness ==
    \E t \in Tasks :
        /\ hist[t].republished /\ cell[t].polls = 1 /\ ~cell[t].running
        /\ cell[t].scheduled /\ ~cell[t].cancelled /\ Count(runqueue, t) = 1

\* C24: no spurious polls. The root is polled only with its notified flag set,
\* the poll clears the flag, and the flag is set again only by the entry of
\* block_on or by a wake of the root's waker (a completion firing the join
\* waker). A runnable of a task is in the ready queue exactly while the task
\* is Scheduled and not Running; Scheduled is set only by spawn, wake or abort;
\* so a poll that returned Pending without a wake leaves the task out of the
\* queue, and every dispatch that polls a task consumes a wake signal.
C24_RootStep ==
    /\ ExecPollRoot => (rootNotified /\ ~rootNotified')
    /\ (~rootNotified /\ rootNotified') =>
           \/ ExecBlockOn
           \/ \E t \in Tasks : cell[t].joinWaker /\ ~cell[t].complete /\ cell'[t].complete

C24_TaskStep(t) ==
    /\ (~cell[t].scheduled /\ cell'[t].scheduled) =>
           (~cell[t].alloc \/ Wake(t) \/ Abort(t))
    /\ (cell'[t].polls > cell[t].polls) =>
           (cell[t].scheduled /\ Head(runqueue) = t /\ ~cell'[t].scheduled)
    /\ (RunPending(t) /\ ~cell[t].scheduled) => ~InSeq(runqueue', t)

C24_NoSpuriousPolls ==
    /\ [](\A t \in Tasks :
            Count(runqueue, t) = (IF cell[t].scheduled /\ ~cell[t].running THEN 1 ELSE 0))
    /\ [][C24_RootStep /\ \A t \in Tasks : C24_TaskStep(t)]_vars

\* C24 witness: the root was polled and is notified again by the completion of
\* the task it joins, while another task was polled, returned Pending without
\* a wake and is not in the ready queue.
C24_Witness ==
    /\ epc = "root" /\ rootNotified
    /\ cell[RootTask].complete /\ handle[RootTask] = "live"
    /\ \E t \in Tasks :
          /\ t # RootTask /\ cell[t].polls = 1 /\ ~cell[t].complete
          /\ ~cell[t].scheduled /\ ~cell[t].running /\ ~InSeq(runqueue, t)

\* C25: a wake of the root is never lost. The mode is NoPark exactly when the
\* root's flag is set at the moment the mode is chosen, so the loop parks with
\* NextCompletion only with the flag clear; a set flag stays set until the
\* root is polled, and after a NoPark park the next iteration polls the root
\* instead of skipping it.
C25_ModeStep ==
    ExecChooseMode => (parkMode' = (IF rootNotified THEN "NoPark" ELSE "NextCompletion"))

C25_KeptStep ==
    /\ (rootNotified /\ ~rootNotified') => ExecPollRoot
    /\ (ExecPark /\ parkMode = "NoPark") => (epc' = "root" /\ rootNotified')
    /\ ExecSkipRoot => ~rootNotified

C25_RootWakeNotLost ==
    /\ [](epc = "park" => (parkMode = "NextCompletion" <=> ~rootNotified))
    /\ [][C25_ModeStep /\ C25_KeptStep]_vars

\* C25 witness: the task the root joins completed while the runnables were
\* drained and fired the root's waker; the loop is about to park with NoPark.
C25_Witness ==
    /\ epc = "park" /\ parkMode = "NoPark" /\ rootNotified
    /\ cell[RootTask].complete /\ cell[RootTask].result = "Ok"
    /\ handle[RootTask] = "live"

\* C26: an observer's entry is in the waiter list if and only if it is Linked
\* (and the observer still exists), at most once, and waiters() is the number
\* of Linked entries, so it never underflows. Polling a Linked observer again
\* only stores the waker; dropping a Linked observer removes it from the list
\* and lowers the count by one, and fires nobody.
C26_Linked(e) == entry[e].state = "Linked" /\ ~entry[e].dropped

C26_PollStep(e) ==
    (NPoll(e) /\ entry[e].state = "Linked") =>
        /\ waiters' = waiters /\ count' = count
        /\ entry' = [entry EXCEPT ![e].waker = TRUE]

C26_DropStep(e) ==
    (NDrop(e) /\ entry[e].state = "Linked") =>
        /\ count' = count - 1
        /\ waiters' = Remove(waiters, e) /\ Len(waiters') = Len(waiters) - 1
        /\ \A f \in Obs : f # e => entry'[f] = entry[f]
        /\ entry'[e].state # "Fired"

C26_ListIffLinked ==
    /\ [](/\ \A e \in Obs : Count(waiters, e) = (IF C26_Linked(e) THEN 1 ELSE 0)
          /\ count \in Nat
          /\ count = Cardinality({e \in Obs : C26_Linked(e)}))
    /\ [][\A e \in Obs : C26_PollStep(e) /\ C26_DropStep(e)]_vars

\* C26 witness: of three Linked observers the middle one was dropped; the
\* other two are still on the list, in order, and nobody was fired.
C26_Witness ==
    /\ waiters = <<1, 3>> /\ count = 2 /\ extFired = 0
    /\ entry[2].dropped /\ entry[2].state = "Linked"
    /\ entry[1].state = "Linked" /\ entry[3].state = "Linked"

\* C27: the driver status only moves forward, one step at a time: Running to
\* Draining, Draining to Shutdown. Draining is entered only by the shutdown
\* loop, in the step that pushed the DRAIN entry; Shutdown only by draining the
\* DRAIN completion. While Running no DRAIN entry exists anywhere, while
\* Draining exactly one is queued, in flight or posted.
C27_Rank(st) == IF st = "Running" THEN 0 ELSE IF st = "Draining" THEN 1 ELSE 2

C27_DrainPosted == \E i \in DOMAIN cq : cq[i].ud = DRAIN_TOKEN

C27_Step ==
    /\ C27_Rank(status') >= C27_Rank(status)
    /\ C27_Rank(status') <= C27_Rank(status) + 1
    /\ (status = "Running" /\ status' = "Draining") =>
           (ShutdownIter /\ Count(sq', DRAIN_TOKEN) = 1 /\ DRAIN_TOKEN \notin Range(sq))
    /\ (status = "Draining" /\ status' = "Shutdown") => (Park /\ C27_DrainPosted)

C27_StatusForward ==
    /\ [](/\ status \in {"Running", "Draining", "Shutdown"}
          /\ status = "Running" =>
                 (DRAIN_TOKEN \notin Range(sq) \cup inflight /\ ~C27_DrainPosted)
          /\ status = "Draining" =>
                 (DRAIN_TOKEN \in Range(sq) \cup inflight \/ C27_DrainPosted))
    /\ [][C27_Step]_vars

\* C27 witness: the driver went through Draining with a request in flight and
\* has reached Shutdown; the shutdown loop has not returned yet.
C27_Witness ==
    /\ status = "Shutdown" /\ rpc = "sd"
    /\ \E o \in Obs : rec[o].atShutdown /\ rec[o].dropInFlight

\* C28: Driver::shutdown terminates. From Running, whatever is in flight and
\* however full the submission queue is, the first turn of its loop pushes the
\* DRAIN entry and the status becomes Draining; the status then becomes
\* Shutdown and the call returns, provided the kernel completes the requests it
\* was handed.
C28_FirstTurn ==
    (ShutdownIter /\ status = "Running") =>
        (status' = "Draining" /\ sq' = <<DRAIN_TOKEN>> /\ rpc' = "park")

C28_ShutdownTerminates ==
    /\ [][C28_FirstTurn]_vars
    /\ (rpc = "sd" /\ status = "Running") ~> (status = "Draining")
    /\ (rpc = "sd") ~> (status = "Shutdown" /\ rpc = "closed")

\* C28 witness: shutdown is called on a Running driver whose submission queue is
\* full while a request is in flight.
C28_Witness ==
    /\ rpc = "sd" /\ status = "Running" /\ Len(sq) = SQCap
    /\ \E o \in Obs : Addr(o) \in inflight

\* C29: a submission of k entries fires exactly min(k, waiters) backpressure
\* observers, the ones at the front of the list, and so never more than the
\* slots it freed; the submissions made by cancel and by close_fd (which
\* submits only when the queue is full) notify in the same way.
C29_Min(a, b) == IF a < b THEN a ELSE b

C29_Notifies(k) ==
    LET m == C29_Min(k, Len(waiters))
    IN /\ {e \in Obs : entry[e].state = "Linked" /\ entry'[e].state = "Fired"}
            = {waiters[i] : i \in 1..m}
       /\ \A e \in Obs : entry[e].state # "Linked" => entry'[e] = entry[e]
       /\ waiters' = SubSeq(waiters, m + 1, Len(waiters))
       /\ count' = count - m
       /\ m <= k

C29_SubmitStep == PushSubmit => (C29_Notifies(Len(sq)) /\ sq' = <<>>)

C29_CancelStep == \A o \in Obs : PushCancel(o) => C29_Notifies(Len(sq))

C29_CloseStep == PushCloseFd => C29_Notifies(IF Len(sq) >= SQCap THEN Len(sq) ELSE 0)

C29_NotifiesSubmitted == [][C29_SubmitStep /\ C29_CancelStep /\ C29_CloseStep]_vars

\* C29 witness: two observers waited on a full queue; the submission made by
\* close_fd fired the first and left the second waiting.
C29_Witness ==
    /\ sq = <<CLOSE_FD_TOKEN>> /\ Addr(1) \in inflight
    /\ entry[2].state = "Fired" /\ entry[3].state = "Linked"
    /\ waiters = <<3>> /\ count = 1

\* C30: a completion whose tag is at most 1024 never reaches an operation
\* record. DRAIN sets the status to Shutdown, UNPARKER resets the unparker,
\* CANCEL, CLOSE_FD and every other reserved tag leave the driver as it is;
\* only a tag above 1024 is handed to complete_operation. A park that drains
\* reserved tags among record completions leaves the records as the record
\* completions alone would.
C30_Cqe(ud) == [ud |-> ud, more |-> FALSE]

C30_Tags == Range(SelectSeq([i \in DOMAIN cq |-> cq[i].ud], LAMBDA u : TRUE))

C30_Dispatch ==
    /\ \A ud \in {DRAIN_TOKEN, UNPARKER_WAKE_TOKEN} \cup StrayTags :
          /\ StDispatch(Cur, C30_Cqe(ud)).rec = rec
          /\ StDispatch(Cur, C30_Cqe(ud)).opf = opf
    /\ StDispatch(Cur, C30_Cqe(DRAIN_TOKEN)).status = "Shutdown"
    /\ StDispatch(Cur, C30_Cqe(UNPARKER_WAKE_TOKEN))
          = [Cur EXCEPT !.unparker = [parked |-> FALSE, woken |-> FALSE]]
    /\ \A ud \in StrayTags : StDispatch(Cur, C30_Cqe(ud)) = Cur
    /\ \A o \in Obs : Addr(o) \in inflight =>
          StDispatch(Cur, C30_Cqe(Addr(o))).rec[o].complete

C30_ParkStep ==
    Park =>
        /\ rec' = StDrain(Cur, SelectSeq(cq, LAMBDA c : c.ud > ReservedTags)).rec
        /\ status' = (IF DRAIN_TOKEN \in C30_Tags THEN "Shutdown" ELSE status)
        /\ (cq # <<>> /\ C30_Tags \subseteq StrayTags) =>
               \E S \in {StSubmit(Cur)} : Install(S)

C30_ReservedNotDispatched == []C30_Dispatch /\ [][C30_ParkStep]_vars

\* C30 witness: the executor armed the unparker and blocked; a completion with
\* a reserved tag ended the wait and was drained by the next park, and no
\* record was completed, advanced or faulted.
C30_Witness ==
    /\ status = "Running" /\ rpc = "root" /\ cq = <<>>
    /\ unparker.parked /\ UNPARKER_WAKE_TOKEN \in inflight
    /\ \E o \in Obs : Addr(o) \in inflight
    /\ \A o \in Obs : ~rec[o].complete /\ rec[o].mores = 0 /\ ~rec[o].fault

\* C31: a park whose initial drain reaps a completion does not block, whatever
\* mode was asked for: it submits with NoPark and returns to its caller, the
\* unparker is not armed, and every task or root woken by the drained
\* completions is runnable when it returns.
C31_Woken(p) ==
    \E i \in DOMAIN cq :
        /\ cq[i].ud > ReservedTags
        /\ owner[OpOf(cq[i].ud)] = p
        /\ opf[OpOf(cq[i].ud)] = "inflight"

C31_ParkStep ==
    (Park /\ cq # <<>>) =>
        /\ rpc' \in {"root", "sd"}
        /\ parkMode' = "NoPark"
        /\ sq' = <<>> /\ cq' = <<>>
        /\ unparker'.parked => unparker.parked
        /\ C31_Woken(Root) => rootNotified'
        /\ \A t \in Tasks : (C31_Woken(t) /\ pst[t] = "idle") =>
               (pst'[t] = "queued" /\ Count(runqueue', t) = 1)

C32_Busy ==
    ParkSubmitErr("EBUSY") =>
        /\ rpc' = "submit" /\ parkMode' = "NoPark" /\ cq' = <<>>
        /\ rec' = StDrain(Cur, cq).rec
        /\ sq' = PreparePark(Cur)[1].sq \/ parkMode = "NoPark"

C32_Intr ==
    ParkSubmitErr("EINTR") =>
        /\ rpc' = "submit" /\ parkMode' = parkMode /\ cq' = cq
        /\ rec' = rec /\ opf' = opf /\ status' = status
        /\ Count(sq', UNPARKER_WAKE_TOKEN) <= 1

C32_Other ==
    \A err \in SubmitErrors \ {"EBUSY", "EINTR"} :
        ParkSubmitErr(err) =>
            (rpc' = err /\ cq' = cq /\ rec' = rec /\ parkMode' = parkMode)

C32_Retry ==
    (ParkSubmitOk /\ parkMode = "NoPark") => (rpc' \in {"root", "sd"} /\ sq' = <<>>)

C32_ParkErrors ==
    /\ [](rpc \notin {"EBUSY", "EINTR"})
    /\ [](rpc \in SubmitErrors => [](rpc \in SubmitErrors))
    /\ [][C32_Busy /\ C32_Intr /\ C32_Other /\ C32_Retry]_vars

\* C32 witness: the first park, asked to wait, met EBUSY on a full submission
\* queue and is about to retry with NoPark: nothing was submitted yet and
\* nothing was returned to block_on.
C32_Witness ==
    /\ rpc = "submit" /\ parkMode = "NoPark" /\ cq = <<>>
    /\ Len(sq) = SQCap /\ inflight = {} /\ unparker.parked /\ status = "Running"
    /\ \A o \in Obs : ~rec[o].complete /\ ~rec[o].dropInFlight

\* C32 witness of the other errors: park returned EIO to shutdown's unwrap.
C32_Returned == rpc = "EIO" /\ status = "Draining"

\* C33: at most one read of the unparker is pushed or in flight at any time.
\* A read is pushed only by a park that found the unparker not parked, with no
\* read in flight and no UNPARKER completion left unreaped; the unparker is
\* reset only by reaping an UNPARKER completion.
C33_Reads == Count(sq, UNPARKER_WAKE_TOKEN) + (IF UNPARKER_WAKE_TOKEN \in inflight THEN 1 ELSE 0)

C33_Posted == Cardinality({i \in DOMAIN cq : cq[i].ud = UNPARKER_WAKE_TOKEN})

C33_ArmStep ==
    (UNPARKER_WAKE_TOKEN \in inflight' /\ UNPARKER_WAKE_TOKEN \notin inflight) =>
        /\ Park
        /\ ~unparker.parked /\ unparker'.parked
        /\ C33_Reads = 0 /\ C33_Posted = 0
        /\ status = "Running"

C33_ResetStep ==
    (unparker.parked /\ ~unparker'.parked) =>
        (Park /\ C33_Posted = 1 /\ unparker' = [parked |-> FALSE, woken |-> FALSE])

C33_OneUnparkerRead ==
    /\ [](/\ C33_Reads + C33_Posted <= 1
          /\ C33_Reads + C33_Posted = 1 => unparker.parked)
    /\ [][C33_ArmStep /\ C33_ResetStep]_vars

\* C33 witness: the thread sleeps on the one read of the unparker, submitted
\* by this park; no other thread has woken it yet.
C33_Witness ==
    /\ rpc = "park_wait" /\ status = "Running" /\ submitted = 1
    /\ C33_Reads = 1 /\ UNPARKER_WAKE_TOKEN \in inflight /\ sq = <<>> /\ cq = <<>>
    /\ unparker.parked /\ ~unparker.woken

\* C34: the drop of an operation's future whose entry was pushed and has not
\* completed issues a cancel, after everything pending in the submission queue
\* (the operation's own entry included) was handed to the kernel. The cancel is
\* an entry tagged CANCEL when async cancellation is allowed and the queue has
\* a free slot, which it has after the submission; a cancel that must be
\* synchronous leaves no entry.
C34_Sentinels == {CANCELLATION_TOKEN, CLOSE_FD_TOKEN}

C34_Submitted ==
    /\ inflight' = inflight \cup (Range(sq) \ C34_Sentinels)
    /\ \A i \in DOMAIN sq' : sq'[i] = CANCELLATION_TOKEN

C34_DropStep ==
    \A o \in Obs :
        PushCancel(o) =>
            /\ C34_Submitted
            /\ Addr(o) \in inflight'
            /\ sq' = <<CANCELLATION_TOKEN>>
            /\ rec'[o].dropInFlight /\ rec'[o].refcount = rec[o].refcount - 1
            /\ rec'[o].freed = 0
            /\ opf'[o] = "dropped"

C34_HandleStep ==
    \A sync \in BOOLEAN :
        HandleCancel(sync) =>
            /\ C34_Submitted
            /\ sq' = (IF sync THEN <<>> ELSE <<CANCELLATION_TOKEN>>)

C34_CancelAfterSubmit ==
    /\ [](\A sync \in BOOLEAN :
             SharedCancel(Cur, sync).sq
                 = (IF CancelIsAsync(sync, <<>>) THEN <<CANCELLATION_TOKEN>> ELSE <<>>))
    /\ [][C34_DropStep /\ C34_HandleStep]_vars

\* C34 witness: an operation was dropped while its entry was still in the
\* submission queue: the entry is in flight, the cancel is queued behind it and
\* the record is kept for the kernel.
C34_Witness ==
    /\ sq = <<CANCELLATION_TOKEN>>
    /\ \E o \in Obs :
          /\ opf[o] = "dropped" /\ rec[o].dropInFlight /\ ~rec[o].complete
          /\ rec[o].refcount = 1 /\ rec[o].freed = 0
          /\ inflight = {Addr(o)}
    /\ \A o \in Obs : opf[o] \notin {"inflight", "done"}

\* C38: whenever the last reference to a FaserFd is dropped a driver handle is
\* current, so the drop does not panic and hands a Close entry to the driver,
\* also when the descriptor belongs to a task whose future is dropped by the
\* executor's Drop.
C38_DropNeverPanics ==
    /\ fdst.state # "panicked"
    /\ (rpc = "sd" /\ fdst.clones > 0) => fdst.state = "closed"

\* C38 witness: a task that cloned its FaserFd did not finish before block_on
\* returned; the executor's Drop dropped its future outside any driver
\* context and Inner::drop panicked without pushing a Close entry.
C38_PanickedOutsideContext ==
    /\ rpc = "sd" /\ fdst.state = "panicked" /\ fdst.closes = 0 /\ fdst.clones > 0
    /\ CLOSE_FD_TOKEN \notin Range(sq)

\* C35: for an operation whose future was dropped, the completion reaped
\* afterwards is passed to cleanup exactly once and never to complete, the
\* descriptor of a successful open or socket is closed and the buffer selected
\* by a successful recv is returned; a completion the future consumed through
\* complete is never passed to cleanup.
C35_CleanupReleases ==
    /\ io.stage = "cleaned"
          => /\ io.cleanups = 1 /\ io.completes = 0
             /\ (io.ok /\ io.op \in {"open", "socket"}) => fdst.state = "closed"
             /\ (io.ok /\ io.op = "recv_from_ring") => io.returned
    /\ io.stage = "consumed" => (io.cleanups = 0 /\ io.completes = 1)
    /\ io.stage \in {"inflight", "posted", "stored"}
          => (io.cleanups = 0 /\ io.completes = 0)

\* C35 witness: the future of a successful open or socket was dropped by the
\* executor's Drop, the completion was reaped by the driver's shutdown, and
\* cleanup, called once, panicked on the missing driver handle and left the
\* descriptor open.
C35_CleanupPanicked ==
    /\ rpc = "sd" /\ io.stage = "cleaned" /\ io.cleanups = 1 /\ io.ok
    /\ io.op \in {"open", "socket"}
    /\ fdst.state = "panicked" /\ CLOSE_FD_TOKEN \notin Range(sq)

\* C36: wake coalescing. The ready queue never holds more than one runnable of
\* a task; a wake or abort (once or twice in a row) on a task that is already
\* queued or is Running leaves the queue as it is, and on an idle task adds at
\* most one runnable; dispatching the runnable clears Scheduled and leaves none
\* of the task in the queue, so the wakes before a run cause that one run only.
C36_CallStep(t) ==
    (Wake(t) \/ Abort(t) \/ AbortTwice(t)) =>
        /\ Count(runqueue', t) <= 1
        /\ (InSeq(runqueue, t) \/ cell[t].running \/ cell[t].complete) => runqueue' = runqueue
        /\ runqueue' \in {runqueue, Append(runqueue, t)}

C36_RunStep(t) ==
    (RunBegin /\ Head(runqueue) = t) =>
        (~InSeq(runqueue', t) /\ ~cell'[t].scheduled /\ cell'[t].polls <= cell[t].polls + 1)

C36_WakeCoalescing ==
    /\ [](\A t \in Tasks : Count(runqueue, t) <= 1)
    /\ [][\A t \in Tasks : C36_CallStep(t) /\ C36_RunStep(t)]_vars

\* C36 witness: a task that was polled once, woken and aborted twice in a row
\* while idle waits in the ready queue exactly once.
C36_Witness ==
    \E t \in Tasks :
        /\ hist[t].abortTwice /\ cell[t].polls = 1 /\ cell[t].scheduled /\ cell[t].cancelled
        /\ ~cell[t].running /\ ~cell[t].complete /\ Count(runqueue, t) = 1

\* C37: the executor never blocks the thread while runnable tasks wait. Whenever
\* block_on has called park with NextCompletion and the park sleeps in
\* submit-and-wait with nothing posted, the ready queue is empty, also after
\* the run loop was left because needs_park() was true.
C37_SleepsOnlyWhenIdle ==
    (rpc = "park_wait" /\ status = "Running" /\ parkMode = "NextCompletion" /\ cq = <<>>)
        => runqueue = <<>>

\* C37 witness: the run loop was left on needs_park() with a task still in the
\* ready queue, the root was not notified, and the thread sleeps in
\* submit-and-wait with no completion posted.
C37_SleepsWithRunnable ==
    /\ rpc = "park_wait" /\ status = "Running" /\ parkMode = "NextCompletion"
    /\ cq = <<>> /\ ~rootNotified /\ count > 0
    /\ runqueue # <<>>
    /\ \A t \in Range(runqueue) : pst[t] = "queued"

\* C39: an abort made while the task is Running still takes effect. When that
\* poll returns Pending the task is run once more without being polled and the
\* join resolves to Cancelled, whether or not a wake arrives after the abort;
\* when that poll returns Ready the task completes with its output.
C39_Aborted(t) ==
    /\ cell[t].cancelled /\ hist[t].abort /\ ~hist[t].abortIdle
    /\ ~cell[t].running /\ ~cell[t].complete

C39_ReadyStep(t) ==
    (RunReady(t) /\ cell[t].cancelled) =>
        (cell'[t].complete /\ (cell[t].joinInterest => cell'[t].result = "Ok"))

C39_AbortWhileRunning ==
    /\ [][\A t \in Tasks : C39_ReadyStep(t)]_vars
    /\ \A t \in Tasks :
          C39_Aborted(t) ~> (cell[t].complete /\ (cell[t].joinInterest => cell[t].result = "Cancelled"))

\* C39 witness: a task aborted during its poll, and only then, returned
\* Pending; it is Cancelled, not Complete, not Scheduled and not in the ready
\* queue, with its future and its join handle alive.
C39_CancelledNotQueued ==
    \E t \in Tasks :
        /\ C39_Aborted(t) /\ ~cell[t].scheduled /\ ~InSeq(runqueue, t)
        /\ cell[t].body = "Future" /\ handle[t] = "live" /\ ~closed

\* C40: cross-thread wake-ups are not lost. While the status is Running the
\* driver blocks in submit-and-wait only with a read of the unparker
\* outstanding in the ring (or its completion posted) and with no wake seen
\* since the last reset; a park whose read cannot be armed, or that finds the
\* unparker woken, does not sleep.
C40_BlockStep ==
    (rpc' = "park_wait" /\ rpc # "park_wait" /\ status = "Running") =>
        /\ ~unparker.woken
        /\ UNPARKER_WAKE_TOKEN \in inflight'

C40_NoLostWake ==
    /\ []((rpc = "park_wait" /\ status = "Running") => C33_Reads + C33_Posted = 1)
    /\ [][C40_BlockStep]_vars

\* C40 witness: an earlier park could not arm the read on a full submission
\* queue but left the unparker marked parked; a later park kept its mode, and
\* the thread sleeps with no read of the unparker anywhere in the ring while
\* another thread has called wake().
C40_WakeLost ==
    /\ rpc = "park_wait" /\ status = "Running" /\ cq = <<>>
    /\ unparker.parked /\ unparker.woken
    /\ C33_Reads = 0 /\ C33_Posted = 0

====
